---- MODULE Spec2Model ----
(***************************************************************************)
(* Verification model of the experimental spectrogram sandbox of           *)
(* BirdNET-Pi-MigCount:                                                    *)
(*   - experimental/spectrogram_generator.py : detect_segments, the        *)
(*     frequency window and the PNG write/verify/retry of                  *)
(*     generate_spectrogram;                                               *)
(*   - experimental/newlook/utils.py, spectrogram_engine.py : the          *)
(*     frequency clamp of compute_spectrogram;                             *)
(*   - experimental/newlook/audio_loader.py : the temporary files of       *)
(*     uploads and their removal at exit;                                  *)
(*   - experimental/generate_spectrograms.py and run_harness : the batch   *)
(*     entry points;                                                       *)
(*   - experimental/controls_panel.py : the live preview across reruns.    *)
(*                                                                         *)
(* Real numbers are exact rationals: a pair <<num, den>> with den > 0, or  *)
(* an integer count of a stated unit.  int() is truncation toward zero.    *)
(***************************************************************************)
EXTENDS Integers, Sequences, FiniteSets, TLC

VARIABLES
    \* ---- detect_segments -------------------------------------------------
    seg_pc,        \* position in detect_segments: "idle","start","loop","tail","done"
    y_len,         \* len(y), samples
    sr,            \* sample rate handed to detect_segments
    seg_cfg,       \* the SpectrogramConfig fields detect_segments reads
    rms,           \* librosa.feature.rms(...)[0], one level per frame, unit 1e-6
    mask,          \* rms_sigmoid > cfg.rms_threshold, per frame
    frame_i,       \* loop index i of "for i, m in enumerate(mask)" (1-based here)
    in_segment,
    seg_start,
    segments,      \* list of <<start_sample, end_sample>>
    \* ---- generate_spectrogram: writing the PNG ---------------------------
    png_pc,        \* position after fig.tight_layout(): "idle","save","exists","size",
                   \*   "verify","retry_save","retry_verify","replace","close","done"
    out_file,      \* what is at output_path: "absent","empty","corrupt","bomb","valid"
    tmp_file,      \* what is at <stem>_spectrogram.tmp.png
    encoded,       \* the paths _save_png was called on, in order
    exc,           \* outcome of the first verification: "none","ok","bad","bomb"
    retry_exc,     \* outcome of the retry (save + verification)
    moved,         \* outcome of tmp_path.replace(output_path): "none","ok","failed"
    fig_open,      \* the figure of line 447 is not yet closed
    png_result,    \* "running","returned", or the error raised
    \* ---- the frequency window ---------------------------------------------
    fq_in,         \* the request: [fmin, fmax: Optional Hz, sample_rate: Hz]
    gen_bounds,    \* generate_spectrogram's <<effective_fmin, effective_fmax>>, or None
    ylim,          \* the <<bottom, top>> handed to ax.set_ylim (bottom Optional), or None
    clamp_out,     \* compute_spectrogram's clamp: <<"ok", low, high>>, <<"ValueError">>, or None
    \* ---- newlook compute_spectrogram --------------------------------------
    eng_pc,        \* position in compute_spectrogram: "idle","start","window","stft",
                   \*   "clamp","done"
    eng_in,        \* the arguments: [ndim, window, n_fft, hop_length, fmin, fmax, sample_rate]
    eng_window,    \* window_name of line 36, or None
    eng_stft,      \* the arguments signal.stft was called with, or None
    eng_out,       \* None, <<"ValueError", message>>, or
                   \*   <<"ok", freqs[mask], the rows of db_spectrogram[mask, :]>>
    \* ---- SpectrogramConfig: from_dict, to_dict, load_config, save_config ---
    cfg_pc,        \* "idle", "raw" (a dict to read), "built" (a config object), "done"
    cfg_raw,       \* the dict handed to from_dict, or None
    cfg_obj,       \* the SpectrogramConfig, or None
    cfg_hop,       \* _calculate_hop_length for cfg_obj, or None
    cfg_back,      \* from_dict(cfg_obj.to_dict()), or None
    cfg_file,      \* the JSON document save_config wrote, or None
    cfg_loaded,    \* what load_config returned from cfg_file, or None
    cfg_dirs,      \* the directories load_config created
    \* ---- generate_spectrogram: hop, transform, levels, colormap ------------
    gen_pc,        \* "idle","hop","transform","normalize","contrast","detect",
                   \*   "colormap","rendered"
    gen_cfg,       \* the SpectrogramConfig fields these steps read
    S_base,        \* the levels of the spectrum, dB re 1, before any conversion
    pcen_ret,      \* what librosa.pcen returns for S_base, or None when PCEN is off
    gen_hop,       \* hop_length of line 362, or None
    branch,        \* the transform computed: <<kind, hop_length passed>>, or None
    y_axis,        \* the axis kind handed to specshow, or None
    S_db,          \* the level matrix, or None
    vmin,          \* or None
    vmax,          \* or None
    det_hop,       \* the hop detect_segments frames its envelope with, or None
    cmap_obj,      \* the colormap resolved at line 448, or None
    colormaps,     \* the names in matplotlib's global colormap registry, plt.colormaps()
    \* ---- newlook/audio_loader.py: temporary files --------------------------
    up_pc,         \* per uploading thread, its position in persist_uploaded_file:
                   \*   "start","created","locked","done","failed"
    tmp_disk,      \* the temporary files on disk
    _TEMP_FILES,   \* the module's list of registered paths
    _TEMP_LOCK,    \* who holds the lock: None, or Some(thread), 0 the exiting main thread
    clean_pc,      \* _cleanup_temp_files at exit: "pending","locked","unlink","done"
    clean_paths,   \* its snapshot "paths", what is still to unlink
    clean_disk,    \* the files that were on disk when the snapshot was taken
    \* ---- the batch entry points: run_harness and generate_spectrograms.main -
    dir_cfg,       \* the loaded configuration: [overlay_segments]
    dir_files,     \* the *.wav files of input_directory, each with what rendering it
                   \*   does: "ok" or "raises"
    dir_pc,        \* per entry point: "start","loop","done"
    wav_files,     \* per entry point: the list the loop walks, or None
    dir_calls,     \* per entry point: the generate_spectrogram calls made so far,
                   \*   <<file, overlay_segments argument>>
    dir_result,    \* per entry point: None, <<"returned", results>>, <<"raised", file>>
    \* ---- controls_panel.render: the live preview ---------------------------
    session_state, \* force_refresh, working_config, last_preview_config,
                   \*   last_preview_wav, preview_path
    rerun          \* the last rerun: its inputs and whether it called generate_spectrogram

seg_vars == <<seg_pc, y_len, sr, seg_cfg, rms, mask, frame_i, in_segment, seg_start, segments>>

png_vars == <<png_pc, out_file, tmp_file, encoded, exc, retry_exc, moved, fig_open, png_result>>

fq_vars == <<fq_in, gen_bounds, ylim, clamp_out>>

eng_vars == <<eng_pc, eng_in, eng_window, eng_stft, eng_out>>

cfg_vars == <<cfg_pc, cfg_raw, cfg_obj, cfg_hop, cfg_back, cfg_file, cfg_loaded, cfg_dirs>>

\* what one generate_spectrogram call holds
gen_call_vars == <<gen_pc, gen_cfg, S_base, pcen_ret, gen_hop, branch, y_axis, S_db, vmin,
                   vmax, det_hop, cmap_obj>>

gen_vars == <<gen_call_vars, colormaps>>

tmp_vars == <<up_pc, tmp_disk, _TEMP_FILES, _TEMP_LOCK, clean_pc, clean_paths, clean_disk>>

dir_vars == <<dir_cfg, dir_files, dir_pc, wav_files, dir_calls, dir_result>>

panel_vars == <<session_state, rerun>>

vars == <<seg_vars, png_vars, fq_vars, eng_vars, cfg_vars, gen_vars, tmp_vars, dir_vars,
         panel_vars>>

\* what the steps of one subsystem leave alone
seg_others ==
    <<png_vars, fq_vars, eng_vars, cfg_vars, gen_vars, tmp_vars, dir_vars, panel_vars>>

png_others ==
    <<seg_vars, fq_vars, eng_vars, cfg_vars, gen_vars, tmp_vars, dir_vars, panel_vars>>

fq_others ==
    <<seg_vars, png_vars, eng_vars, cfg_vars, gen_vars, tmp_vars, dir_vars, panel_vars>>

eng_others ==
    <<seg_vars, png_vars, fq_vars, cfg_vars, gen_vars, tmp_vars, dir_vars, panel_vars>>

cfg_others ==
    <<seg_vars, png_vars, fq_vars, eng_vars, gen_vars, tmp_vars, dir_vars, panel_vars>>

tmp_others ==
    <<seg_vars, png_vars, fq_vars, eng_vars, cfg_vars, gen_vars, dir_vars, panel_vars>>

dir_others ==
    <<seg_vars, png_vars, fq_vars, eng_vars, cfg_vars, gen_vars, tmp_vars, panel_vars>>

panel_others ==
    <<seg_vars, png_vars, fq_vars, eng_vars, cfg_vars, gen_vars, tmp_vars, dir_vars>>

gen_others ==
    <<seg_vars, png_vars, fq_vars, eng_vars, cfg_vars, tmp_vars, dir_vars, panel_vars>>

----------------------------------------------------------------------------
(* Bounds of the model.                                                    *)

\* longest buffer, in samples
MaxLen == 4

\* min_segment_duration and min_silence_duration range over n/2 s, n in -1..MaxDur
MaxDur == 3

\* small requested frequencies range over -2..MaxFreq Hz
MaxFreq == 6

----------------------------------------------------------------------------
(* Helpers.                                                                *)

\* Optional[...]: None is the empty tuple, a value v the 1-tuple <<v>>.
None == <<>>

Some(v) == <<v>>

\* Python truthiness of an Optional number: None and 0 are falsy.
Truthy(o) == o # None /\ o[1] # 0

\* Python int(num/den) for den > 0: truncation toward zero.
PyInt(num, den) == IF num >= 0 THEN num \div den ELSE -((-num) \div den)

Abs(x) == IF x >= 0 THEN x ELSE -x

Last(s) == s[Len(s)]

\* s with its last element replaced by x: "segments[-1] = x".
SetLast(s, x) == [s EXCEPT ![Len(s)] = x]

SeqMax(s) == CHOOSE m \in {s[j] : j \in DOMAIN s} : \A j \in DOMAIN s : s[j] <= m

----------------------------------------------------------------------------
(* detect_segments: inputs.                                                *)

\* (n_fft, hop_ratio, hop_length) triples of the configuration; hop_ratio is a rational.
HopConfigs ==
    { [n_fft |-> 4, hop_ratio |-> <<1, 4>>, hop_length |-> None],
      [n_fft |-> 4, hop_ratio |-> <<1, 4>>, hop_length |-> Some(2)] }

\* (sigmoid_k, rms_threshold): sigmoid_k a rational, rms_threshold in tenths.
\* <<20,1>>,2 are from_dict's defaults, <<3,20>>,1 the dataclass defaults.
SigmoidConfigs ==
    { [sigmoid_k |-> <<20, 1>>,  rms_threshold |-> 2],
      [sigmoid_k |-> <<3, 20>>,  rms_threshold |-> 1],
      [sigmoid_k |-> <<0, 1>>,   rms_threshold |-> 5],
      [sigmoid_k |-> <<-20, 1>>, rms_threshold |-> 2],
      [sigmoid_k |-> <<20, 1>>,  rms_threshold |-> 0],
      [sigmoid_k |-> <<20, 1>>,  rms_threshold |-> 10] }

\* durations in seconds, as rationals n/2
Durations == { <<n, 2>> : n \in -1..MaxDur }

SampleRates == {1, 2, 3}

\* RMS levels of a frame, in units of 1e-6
Levels == {0, 1, 3}

\* the 1e-6 added to rms before taking the maximum, in units of 1e-6
RmsEps == 1

_calculate_hop_length(n_fft, hop_ratio, provided) ==
    LET hop_from_ratio == PyInt(n_fft * hop_ratio[1], hop_ratio[2])
    IN  IF Truthy(provided) /\ provided[1] > 0 THEN provided[1] ELSE hop_from_ratio

\* the hop taken from the ratio alone, whatever hop_length the configuration has
HopFromRatioOnly(cfg) == _calculate_hop_length(cfg.n_fft, cfg.hop_ratio, None)

\* the hop detect_segments frames the envelope with
HopOf(cfg) == _calculate_hop_length(cfg.n_fft, cfg.hop_ratio, cfg.hop_length)

\* an envelope one frame longer than the buffer gives
NumFramesPastEnd(len, hop) == 2 + (len \div hop)

\* librosa.feature.rms with center=True yields 1 + len(y) // hop frames
NumFrames(len, hop) == 1 + (len \div hop)

----------------------------------------------------------------------------
(* detect_segments: the soft threshold.                                    *)

\* 1000 * ln(p / (1 - p)) for p = t/10, 0 < t < 10, rounded
Logit1000(t) ==
    CASE t = 1 -> -2197 [] t = 2 -> -1386 [] t = 3 -> -847 [] t = 4 -> -405
      [] t = 5 -> 0     [] t = 6 -> 405   [] t = 7 -> 847  [] t = 8 -> 1386
      [] t = 9 -> 2197

\* _sigmoid(x, k) > t/10 for x = xnum/xden (xden > 0), k = k[1]/k[2]:
\*    1 / (1 + exp(-k (x - 1/2))) > p   <=>   k (x - 1/2) > ln(p / (1 - p))
\* for 0 < p < 1; the sigmoid lies strictly between 0 and 1.
SigmoidAbove(xnum, xden, k, t) ==
    IF t <= 0 THEN TRUE
    ELSE IF t >= 10 THEN FALSE
    ELSE k[1] * (2 * xnum - xden) * 1000 > Logit1000(t) * 2 * xden * k[2]

\* rms_norm = rms / np.max(rms + 1e-6);  mask = _sigmoid(rms_norm, k) > rms_threshold
MaskOf(levels, cfg) ==
    LET top == SeqMax(levels) + RmsEps
    IN  [j \in DOMAIN levels |-> SigmoidAbove(levels[j], top, cfg.sigmoid_k, cfg.rms_threshold)]

----------------------------------------------------------------------------
(* detect_segments: the state machine.                                     *)

min_samples == PyInt(seg_cfg.min_segment_duration[1] * sr, seg_cfg.min_segment_duration[2])

min_silence == PyInt(seg_cfg.min_silence_duration[1] * sr, seg_cfg.min_silence_duration[2])

hop_length == HopOf(seg_cfg)

\* CloseInLoop without the merge of lines 326-328
CloseInLoopNoMerge(segs, start, end, minSamples, minSilence) ==
    IF end - start >= minSamples THEN Append(segs, <<start, end>>) ELSE segs

\* CloseInLoop with > for the >= of line 325
CloseInLoopStrict(segs, start, end, minSamples, minSilence) ==
    IF end - start > minSamples
    THEN IF segs # <<>> /\ start - Last(segs)[2] < minSilence
         THEN SetLast(segs, <<Last(segs)[1], end>>)
         ELSE Append(segs, <<start, end>>)
    ELSE segs

\* CloseInLoop without the length test of line 325
CloseInLoopNoMin(segs, start, end, minSamples, minSilence) ==
    IF segs # <<>> /\ start - Last(segs)[2] < minSilence
    THEN SetLast(segs, <<Last(segs)[1], end>>)
    ELSE Append(segs, <<start, end>>)

\* lines 324-330: a candidate closed by a silent frame
CloseInLoop(segs, start, end, minSamples, minSilence) ==
    IF end - start >= minSamples
    THEN IF segs # <<>> /\ start - Last(segs)[2] < minSilence
         THEN SetLast(segs, <<Last(segs)[1], end>>)
         ELSE Append(segs, <<start, end>>)
    ELSE segs

\* CloseAtEnd without the merge of lines 337-338
CloseAtEndNoMerge(segs, start, end, minSamples, minSilence) ==
    IF end - start >= minSamples THEN Append(segs, <<start, end>>) ELSE segs

\* CloseAtEnd with > for the >= of line 336
CloseAtEndStrict(segs, start, end, minSamples, minSilence) ==
    IF end - start > minSamples
    THEN IF segs # <<>> /\ start - Last(segs)[2] < minSilence
         THEN SetLast(segs, <<Last(segs)[1], end>>)
         ELSE Append(segs, <<start, end>>)
    ELSE segs

\* CloseAtEnd without the length test of line 336
CloseAtEndNoMin(segs, start, end, minSamples, minSilence) ==
    IF segs # <<>> /\ start - Last(segs)[2] < minSilence
    THEN SetLast(segs, <<Last(segs)[1], end>>)
    ELSE Append(segs, <<start, end>>)

\* lines 335-340: the candidate still open when the buffer ends
CloseAtEnd(segs, start, end, minSamples, minSilence) ==
    IF end - start >= minSamples
    THEN IF segs # <<>> /\ start - Last(segs)[2] < minSilence
         THEN SetLast(segs, <<Last(segs)[1], end>>)
         ELSE Append(segs, <<start, end>>)
    ELSE segs

SegIdle ==
    /\ seg_pc = "idle" /\ y_len = 0 /\ sr = 0 /\ seg_cfg = <<>> /\ rms = <<>>
    /\ mask = <<>> /\ frame_i = 0 /\ in_segment = FALSE /\ seg_start = 0
    /\ segments = <<>>

PngIdle ==
    /\ png_pc = "idle" /\ out_file = "absent" /\ tmp_file = "absent" /\ encoded = <<>>
    /\ exc = "none" /\ retry_exc = "none" /\ moved = "none" /\ fig_open = FALSE
    /\ png_result = "idle"

FqIdle == fq_in = <<>> /\ gen_bounds = None /\ ylim = None /\ clamp_out = None

EngIdle ==
    /\ eng_pc = "idle" /\ eng_in = <<>>
    /\ eng_window = None /\ eng_stft = None /\ eng_out = None

CfgIdle ==
    /\ cfg_pc = "idle" /\ cfg_raw = None /\ cfg_obj = None /\ cfg_hop = None
    /\ cfg_back = None /\ cfg_file = None /\ cfg_loaded = None /\ cfg_dirs = {}

\* the names plt.colormaps() holds
KnownColormaps == { "gray", "gray_r", "viridis", "magma" }

GenIdle ==
    /\ gen_pc = "idle" /\ gen_cfg = <<>> /\ S_base = <<>> /\ pcen_ret = None
    /\ gen_hop = None /\ branch = None /\ y_axis = None /\ S_db = None
    /\ vmin = None /\ vmax = None /\ det_hop = None /\ cmap_obj = None
    /\ colormaps = KnownColormaps

TmpIdle ==
    /\ up_pc = <<>> /\ tmp_disk = {} /\ _TEMP_FILES = <<>> /\ _TEMP_LOCK = None
    /\ clean_pc = "pending" /\ clean_paths = <<>> /\ clean_disk = {}

DirIdle ==
    /\ dir_cfg = <<>> /\ dir_files = <<>> /\ dir_pc = <<>> /\ wav_files = <<>>
    /\ dir_calls = <<>> /\ dir_result = <<>>

PanelIdle == session_state = <<>> /\ rerun = <<>>

\* one subsystem runs at a time; the others stay as constructed
seg_others_idle ==
    PngIdle /\ FqIdle /\ EngIdle /\ CfgIdle
    /\ GenIdle /\ TmpIdle /\ DirIdle /\ PanelIdle

png_others_idle ==
    SegIdle /\ FqIdle /\ EngIdle /\ CfgIdle
    /\ GenIdle /\ TmpIdle /\ DirIdle /\ PanelIdle

fq_others_idle ==
    SegIdle /\ PngIdle /\ EngIdle /\ CfgIdle
    /\ GenIdle /\ TmpIdle /\ DirIdle /\ PanelIdle

eng_others_idle ==
    SegIdle /\ PngIdle /\ FqIdle /\ CfgIdle
    /\ GenIdle /\ TmpIdle /\ DirIdle /\ PanelIdle

cfg_others_idle ==
    SegIdle /\ PngIdle /\ FqIdle /\ EngIdle
    /\ GenIdle /\ TmpIdle /\ DirIdle /\ PanelIdle

tmp_others_idle ==
    SegIdle /\ PngIdle /\ FqIdle /\ EngIdle
    /\ CfgIdle /\ GenIdle /\ DirIdle /\ PanelIdle

dir_others_idle ==
    SegIdle /\ PngIdle /\ FqIdle /\ EngIdle
    /\ CfgIdle /\ GenIdle /\ TmpIdle /\ PanelIdle

panel_others_idle ==
    SegIdle /\ PngIdle /\ FqIdle /\ EngIdle
    /\ CfgIdle /\ GenIdle /\ TmpIdle /\ DirIdle

gen_others_idle ==
    SegIdle /\ PngIdle /\ FqIdle /\ EngIdle
    /\ CfgIdle /\ TmpIdle /\ DirIdle /\ PanelIdle

InitSeg ==
    /\ seg_others_idle
    /\ seg_pc = "start"
    /\ sr \in SampleRates
    /\ \E h \in HopConfigs, s \in SigmoidConfigs, d1 \in Durations, d2 \in Durations :
          seg_cfg = [n_fft |-> h.n_fft, hop_ratio |-> h.hop_ratio, hop_length |-> h.hop_length,
                     sigmoid_k |-> s.sigmoid_k, rms_threshold |-> s.rms_threshold,
                     min_segment_duration |-> d1, min_silence_duration |-> d2]
    /\ y_len \in 1..MaxLen    \* a non-empty buffer
    /\ rms \in [1..NumFrames(y_len, HopOf(seg_cfg)) -> Levels]
    /\ mask = <<>>
    /\ frame_i = 0
    /\ in_segment = FALSE
    /\ seg_start = 0
    /\ segments = <<>>

\* lines 298-316
ComputeMask ==
    /\ seg_pc = "start"
    /\ mask' = MaskOf(rms, seg_cfg)
    /\ frame_i' = 1
    /\ seg_pc' = "loop"
    /\ UNCHANGED <<y_len, sr, seg_cfg, rms, in_segment, seg_start, segments>>
    /\ UNCHANGED seg_others

\* line 319; frame_i is 1-based
sample_idx == (frame_i - 1) * hop_length

\* lines 320-322
LoopOpen ==
    /\ seg_pc = "loop" /\ frame_i <= Len(mask)
    /\ mask[frame_i] /\ ~in_segment
    /\ in_segment' = TRUE
    /\ seg_start' = sample_idx
    /\ frame_i' = frame_i + 1
    /\ UNCHANGED <<seg_pc, y_len, sr, seg_cfg, rms, mask, segments>>
    /\ UNCHANGED seg_others

\* lines 323-331
LoopClose ==
    /\ seg_pc = "loop" /\ frame_i <= Len(mask)
    /\ ~mask[frame_i] /\ in_segment
    /\ segments' = CloseInLoop(segments, seg_start, sample_idx, min_samples, min_silence)
    /\ in_segment' = FALSE
    /\ frame_i' = frame_i + 1
    /\ UNCHANGED <<seg_pc, y_len, sr, seg_cfg, rms, mask, seg_start>>
    /\ UNCHANGED seg_others

\* neither branch of lines 320-331 taken
LoopSkip ==
    /\ seg_pc = "loop" /\ frame_i <= Len(mask)
    /\ mask[frame_i] = in_segment
    /\ frame_i' = frame_i + 1
    /\ UNCHANGED <<seg_pc, y_len, sr, seg_cfg, rms, mask, in_segment, seg_start, segments>>
    /\ UNCHANGED seg_others

LoopExit ==
    /\ seg_pc = "loop" /\ frame_i > Len(mask)
    /\ seg_pc' = "tail"
    /\ UNCHANGED <<y_len, sr, seg_cfg, rms, mask, frame_i, in_segment, seg_start, segments>>
    /\ UNCHANGED seg_others

\* lines 333-342
CloseTail ==
    /\ seg_pc = "tail"
    /\ segments' = IF in_segment
                   THEN CloseAtEnd(segments, seg_start, y_len, min_samples, min_silence)
                   ELSE segments
    /\ seg_pc' = "done"
    /\ UNCHANGED <<y_len, sr, seg_cfg, rms, mask, frame_i, in_segment, seg_start>>
    /\ UNCHANGED seg_others

NextSeg == ComputeMask \/ LoopOpen \/ LoopClose \/ LoopSkip \/ LoopExit \/ CloseTail

SpecSeg == InitSeg /\ [][NextSeg]_vars

----------------------------------------------------------------------------
(* generate_spectrogram, lines 468-508: write, verify, retry once.         *)

\* what a file can hold
FileContents == {"absent", "empty", "corrupt", "bomb", "valid"}

\* what _save_png can leave at its path when it returns: a complete PNG, a
\* PNG of too many pixels, a truncated or empty file; or it wrote nothing
SaveOutcomes(before) == {"valid", "bomb", "corrupt", "empty", before}

\* what an earlier call can have left at a path
StaleContents == FileContents

\* "with Image.open(path) as png_check: png_check.verify()", lines 478-479 and
\* 487-488: "ok", "bomb" (Image.DecompressionBombError) or "bad"
\* (UnidentifiedImageError, OSError, SyntaxError)
VerifyImage(content) ==
    CASE content = "valid" -> "ok"
      [] content = "bomb"  -> "bomb"
      [] OTHER             -> "bad"

\* RetryTarget that starts the retry over after a failed retry
RetryTargetAgain(outcome) ==
    CASE outcome = "ok"   -> "replace"
      [] outcome = "bomb" -> "done"
      [] OTHER            -> "retry_save"

\* where the retry's try statement of lines 485-505 goes on its outcome:
\* else-branch, or out of the function
RetryTarget(outcome) ==
    CASE outcome = "ok"   -> "replace"
      [] OTHER            -> "done"

InitPng ==
    /\ png_others_idle
    /\ png_pc = "save"
    /\ out_file \in StaleContents
    /\ tmp_file \in StaleContents
    /\ encoded = <<>>
    /\ exc = "none" /\ retry_exc = "none" /\ moved = "none"
    /\ fig_open = TRUE
    /\ png_result = "running"

\* line 469: _save_png(fig, output_path, cfg.dpi) returns
SaveOutput ==
    /\ png_pc = "save"
    /\ encoded' = Append(encoded, "output_path")
    /\ out_file' \in SaveOutcomes(out_file)
    /\ png_pc' = "exists"
    /\ UNCHANGED <<tmp_file, exc, retry_exc, moved, fig_open, png_result>>
    /\ UNCHANGED png_others

\* line 469: _save_png raises (savefig's own OSError); nothing catches it
SaveOutputRaises ==
    /\ png_pc = "save"
    /\ encoded' = Append(encoded, "output_path")
    /\ out_file' \in {out_file, "empty", "corrupt"}
    /\ png_result' = "OSError"
    /\ png_pc' = "done"
    /\ UNCHANGED <<tmp_file, exc, retry_exc, moved, fig_open>>
    /\ UNCHANGED png_others

\* lines 471-472
CheckExists ==
    /\ png_pc = "exists"
    /\ IF out_file = "absent"
       THEN png_result' = "RuntimeError: No PNG written" /\ png_pc' = "done"
       ELSE png_result' = png_result /\ png_pc' = "size"
    /\ UNCHANGED <<out_file, tmp_file, encoded, exc, retry_exc, moved, fig_open>>
    /\ UNCHANGED png_others

\* lines 473-474
CheckSize ==
    /\ png_pc = "size"
    /\ IF out_file = "empty"
       THEN png_result' = "RuntimeError: Empty PNG written" /\ png_pc' = "done"
       ELSE png_result' = png_result /\ png_pc' = "verify"
    /\ UNCHANGED <<out_file, tmp_file, encoded, exc, retry_exc, moved, fig_open>>
    /\ UNCHANGED png_others

\* lines 477-484
VerifyOutput ==
    /\ png_pc = "verify"
    /\ exc' = VerifyImage(out_file)
    /\ CASE exc' = "ok" ->
              /\ png_pc' = "close"
              /\ UNCHANGED <<out_file, png_result>>
         [] exc' = "bomb" ->
              \* _cleanup_paths(output_path); raise
              /\ out_file' = "absent"
              /\ png_result' = "DecompressionBombError"
              /\ png_pc' = "done"
         [] OTHER ->
              /\ png_pc' = "retry_save"
              /\ UNCHANGED <<out_file, png_result>>
    /\ UNCHANGED <<tmp_file, encoded, retry_exc, moved, fig_open>>
    /\ UNCHANGED png_others

\* line 486: _save_png(fig, tmp_path, cfg.dpi) returns
SaveTmp ==
    /\ png_pc = "retry_save"
    /\ encoded' = Append(encoded, "tmp_path")
    /\ tmp_file' \in SaveOutcomes(tmp_file)
    /\ png_pc' = "retry_verify"
    /\ UNCHANGED <<out_file, exc, retry_exc, moved, fig_open, png_result>>
    /\ UNCHANGED png_others

\* line 486 raises OSError: caught at line 492, re-raised as RuntimeError at
\* 493-495, then the finally of lines 503-505
SaveTmpRaises ==
    /\ png_pc = "retry_save"
    /\ encoded' = Append(encoded, "tmp_path")
    /\ retry_exc' = "bad"
    /\ png_result' = "RuntimeError: Failed to create valid PNG"
    /\ tmp_file' = "absent"
    /\ png_pc' = "done"
    /\ UNCHANGED <<out_file, exc, moved, fig_open>>
    /\ UNCHANGED png_others

\* lines 487-495 and the finally of lines 503-505
VerifyTmp ==
    /\ png_pc = "retry_verify"
    /\ retry_exc' = VerifyImage(tmp_file)
    /\ png_pc' = RetryTarget(retry_exc')
    /\ CASE retry_exc' = "ok" ->
              UNCHANGED <<out_file, tmp_file, png_result>>
         [] retry_exc' = "bomb" ->
              \* _cleanup_paths(tmp_path, output_path); raise
              /\ out_file' = "absent"
              /\ tmp_file' = "absent"
              /\ png_result' = "DecompressionBombError"
         [] OTHER ->
              /\ tmp_file' = "absent"
              /\ png_result' = "RuntimeError: Failed to create valid PNG"
              /\ UNCHANGED out_file
    /\ UNCHANGED <<encoded, exc, moved, fig_open>>
    /\ UNCHANGED png_others

\* lines 497-500 and the finally: tmp_path.replace(output_path) succeeds
ReplaceOutput ==
    /\ png_pc = "replace"
    /\ moved' = "ok"
    /\ out_file' = tmp_file
    /\ tmp_file' = "absent"
    /\ png_pc' = "close"
    /\ UNCHANGED <<encoded, exc, retry_exc, fig_open, png_result>>
    /\ UNCHANGED png_others

\* lines 501-505: the replace raises OSError; the finally unlinks tmp_path
ReplaceFails ==
    /\ png_pc = "replace"
    /\ moved' = "failed"
    /\ png_result' = "RuntimeError: Failed to move temporary PNG"
    /\ tmp_file' = "absent"
    /\ png_pc' = "done"
    /\ UNCHANGED <<out_file, encoded, exc, retry_exc, fig_open>>
    /\ UNCHANGED png_others

\* lines 507-508
CloseAndReturn ==
    /\ png_pc = "close"
    /\ fig_open' = FALSE
    /\ png_result' = "returned"
    /\ png_pc' = "done"
    /\ UNCHANGED <<out_file, tmp_file, encoded, exc, retry_exc, moved>>
    /\ UNCHANGED png_others

NextPng ==
    \/ SaveOutput \/ SaveOutputRaises \/ CheckExists \/ CheckSize \/ VerifyOutput
    \/ SaveTmp \/ SaveTmpRaises \/ VerifyTmp \/ ReplaceOutput \/ ReplaceFails
    \/ CloseAndReturn

SpecPng == InitPng /\ [][NextPng]_vars

----------------------------------------------------------------------------
(* The frequency window.  Frequencies are integers in units of 1/4 Hz, so  *)
(* that sample_rate / 2.0 and effective_fmax * 0.5 are exact.              *)

Hz(f) == 4 * f

Min(a, b) == IF a <= b THEN a ELSE b

Max(a, b) == IF a >= b THEN a ELSE b

\* "o or default" on an Optional number given in Hz; the result in 1/4 Hz
OrElse(o, default) == IF Truthy(o) THEN Hz(o[1]) ELSE default

\* the 16000.0 of line 371, Hz
FreqCapHz == 16000

RequestedFreqs == (-2..MaxFreq) \cup {2000, 9500, 13000, 20000}

RequestSampleRates == {8000, 24000, 48000}

\* sample_rate / 2.0
Nyquist(rate) == 2 * rate

\* spectrogram_generator.py line 371
FreqCap(rate) == Min(Hz(FreqCapHz), Nyquist(rate) - Hz(1))

\* lines 372-373, before the correction of lines 374-375
RequestedFmin(req) == OrElse(req.fmin, 0)

CappedFmax(req) == Min(OrElse(req.fmax, FreqCap(req.sample_rate)), FreqCap(req.sample_rate))

\* generate_spectrogram, lines 370-375
EffectiveBounds(req) ==
    LET effective_fmin == RequestedFmin(req)
        effective_fmax == CappedFmax(req)
    IN  IF effective_fmax <= effective_fmin
        THEN << Max(0, effective_fmax \div 2), effective_fmax >>
        ELSE << effective_fmin, effective_fmax >>

\* clamp_frequency_range, utils.py lines 12-18; fmin, fmax in 1/4 Hz, fmax Optional
clamp_frequency_range(fmin, fmax, sample_rate) ==
    LET nyquist == Nyquist(sample_rate)
        low     == Max(0, fmin)
        high    == IF fmax = None THEN nyquist ELSE Min(fmax[1], nyquist)
    IN  IF low >= high THEN << "ValueError" >> ELSE << "ok", low, high >>

\* spectrogram_engine.py line 56:
\* clamp_frequency_range(fmin or 0.0, fmax or (sample_rate / 2.0), sample_rate)
EngineClamp(req) ==
    clamp_frequency_range(OrElse(req.fmin, 0),
                          Some(OrElse(req.fmax, Nyquist(req.sample_rate))),
                          req.sample_rate)

\* set_ylim with the lower limit halved
YlimHalved(bounds) == << Some(bounds[1] \div 2), bounds[2] >>

\* lines 452-455: bottom = effective_fmin if effective_fmin > 0.0 else None,
\* top = effective_fmax
YlimOf(bounds) ==
    << IF bounds[1] > 0 THEN Some(bounds[1]) ELSE None, bounds[2] >>

InitFq ==
    /\ fq_others_idle
    /\ fq_in \in [fmin : {None} \cup {Some(f) : f \in RequestedFreqs},
                  fmax : {None} \cup {Some(f) : f \in RequestedFreqs},
                  sample_rate : RequestSampleRates]
    /\ gen_bounds = None
    /\ ylim = None
    /\ clamp_out = None

\* generate_spectrogram determines its frequency bounds
GenerateBounds ==
    /\ fq_in # <<>> /\ gen_bounds = None
    /\ gen_bounds' = EffectiveBounds(fq_in)
    /\ UNCHANGED <<fq_in, ylim, clamp_out>>
    /\ UNCHANGED fq_others

\* lines 452-455: ax.set_ylim(bottom=..., top=...)
SetYlim ==
    /\ gen_bounds # None /\ ylim = None
    /\ ylim' = YlimOf(gen_bounds)
    /\ UNCHANGED <<fq_in, gen_bounds, clamp_out>>
    /\ UNCHANGED fq_others

\* compute_spectrogram clamps its frequency range
ComputeClamp ==
    /\ fq_in # <<>> /\ clamp_out = None
    /\ clamp_out' = EngineClamp(fq_in)
    /\ UNCHANGED <<fq_in, gen_bounds, ylim>>
    /\ UNCHANGED fq_others

NextFq == GenerateBounds \/ SetYlim \/ ComputeClamp

SpecFq == InitFq /\ [][NextFq]_vars

----------------------------------------------------------------------------
(* newlook/spectrogram_engine.py: compute_spectrogram.  Frequencies in     *)
(* 1/4 Hz as above; the audio is long enough for at least one frame.       *)

\* the ("hann", "blackman", "hamming") of line 36
AllowedWindows == {"hann", "blackman", "hamming"}

\* str.lower() on the window and transform names of the model
Lower(name) ==
    CASE name = "Hann"    -> "hann"
      [] name = "HAMMING" -> "hamming"
      [] name = "MEL"     -> "mel"
      [] name = "Cqt"     -> "cqt"
      [] OTHER            -> name

\* validate_window_name returning the name as it was given
validate_window_name_as_given(name, allowed) ==
    IF Lower(name) \notin {Lower(w) : w \in allowed}
    THEN << "ValueError", "unsupported window" >>
    ELSE << "ok", name >>

\* validate_window_name, utils.py lines 29-33
validate_window_name(name, allowed) ==
    LET lower == Lower(name)
    IN  IF lower \notin {Lower(w) : w \in allowed}
        THEN << "ValueError", "unsupported window" >>
        ELSE << "ok", lower >>

\* fmin, fmax handed to compute_spectrogram, Hz
EngineFreqs == {-1000, 0, 500, 1000, 2000, 2500, 4000, 13000}

\* scipy.signal.stft refuses noverlap >= nperseg and nothing else here
StftAccepts(call) == call.noverlap < call.nperseg

\* the frequency axis signal.stft returns: k * fs / nperseg, k = 0 .. nperseg / 2
\* (the sample rates above are multiples of the FFT sizes)
StftFreqs(call) ==
    [ i \in 1..(call.nperseg \div 2 + 1) |-> (Hz(call.fs) * (i - 1)) \div call.nperseg ]

\* line 57: mask = (freqs >= low) & (freqs <= high)
BinMask(freqs, low, high) ==
    [ i \in DOMAIN freqs |-> freqs[i] >= low /\ freqs[i] <= high ]

\* boolean indexing a[m]: the entries of a where m holds, in order
RECURSIVE Compress(_, _)
Compress(a, m) ==
    IF a = <<>> THEN <<>>
    ELSE IF Head(m) THEN << Head(a) >> \o Compress(Tail(a), Tail(m))
         ELSE Compress(Tail(a), Tail(m))

InitEng ==
    /\ eng_others_idle
    /\ eng_pc = "start"
    /\ eng_in \in [ndim : {1, 2},
                   window : {"hann", "Hann", "HAMMING", "blackman", "boxcar", ""},
                   n_fft : {4, 8},
                   hop_length : {0, 2, 4, 8},
                   fmin : {None} \cup {Some(f) : f \in EngineFreqs},
                   fmax : {None} \cup {Some(f) : f \in EngineFreqs},
                   sample_rate : {8000, 24000}]
    /\ eng_window = None /\ eng_stft = None /\ eng_out = None

\* lines 33-34: if audio.ndim != 1: raise ValueError("audio must be mono")
CheckMono ==
    /\ eng_pc = "start"
    /\ IF eng_in.ndim # 1
       THEN eng_pc' = "done" /\ eng_out' = << "ValueError", "audio must be mono" >>
       ELSE eng_pc' = "window" /\ UNCHANGED eng_out
    /\ UNCHANGED <<eng_in, eng_window, eng_stft>>
    /\ UNCHANGED eng_others

\* line 36: window_name = validate_window_name(window, ("hann", "blackman", "hamming"))
ValidateWindow ==
    /\ eng_pc = "window"
    /\ LET r == validate_window_name(eng_in.window, AllowedWindows)
       IN  IF r[1] = "ValueError"
           THEN eng_pc' = "done" /\ eng_out' = r /\ UNCHANGED eng_window
           ELSE eng_pc' = "stft" /\ eng_window' = Some(r[2]) /\ UNCHANGED eng_out
    /\ UNCHANGED <<eng_in, eng_stft>>
    /\ UNCHANGED eng_others

\* lines 37-46: overlap = n_fft - hop_length; signal.stft(audio, fs, window, nperseg, noverlap, ...)
CallStft ==
    /\ eng_pc = "stft"
    /\ LET overlap == eng_in.n_fft - eng_in.hop_length
           call == [fs |-> eng_in.sample_rate, window |-> eng_window[1],
                    nperseg |-> eng_in.n_fft, noverlap |-> overlap]
       IN  /\ eng_stft' = Some(call)
           /\ IF StftAccepts(call)
              THEN eng_pc' = "clamp" /\ UNCHANGED eng_out
              ELSE /\ eng_pc' = "done"
                   /\ eng_out' = << "ValueError", "noverlap must be less than nperseg" >>
    /\ UNCHANGED <<eng_in, eng_window>>
    /\ UNCHANGED eng_others

\* lines 56-58: clamp, mask, return freqs[mask], times, db_spectrogram[mask, :]
ClampAndReturn ==
    /\ eng_pc = "clamp"
    /\ LET c     == EngineClamp(eng_in)
           freqs == StftFreqs(eng_stft[1])
           db    == [ i \in DOMAIN freqs |-> i - 1 ]
       IN  IF c[1] = "ValueError"
           THEN eng_out' = << "ValueError", "fmin must be lower than fmax" >>
           ELSE LET m == BinMask(freqs, c[2], c[3])
                IN  eng_out' = << "ok", Compress(freqs, m), Compress(db, m) >>
    /\ eng_pc' = "done"
    /\ UNCHANGED <<eng_in, eng_window, eng_stft>>
    /\ UNCHANGED eng_others

NextEng == CheckMono \/ ValidateWindow \/ CallStft \/ ClampAndReturn

SpecEng == InitEng /\ [][NextEng]_vars

----------------------------------------------------------------------------
(* SpectrogramConfig and its dict / JSON forms.  A Python value held in a  *)
(* dict carries its type; a float is an exact rational <<num, den>>; a     *)
(* path string is the sequence of its names and separators.                *)

NoneV == << "NoneType" >>

IntV(n) == << "int", n >>

FloatV(q) == << "float", q >>

StrV(s) == << "str", s >>

BoolV(b) == << "bool", b >>

\* int(v)
int(v) ==
    CASE v[1] = "int"   -> v[2]
      [] v[1] = "float" -> PyInt(v[2][1], v[2][2])
      [] v[1] = "bool"  -> IF v[2] THEN 1 ELSE 0

\* float(v)
float(v) ==
    CASE v[1] = "int"   -> << v[2], 1 >>
      [] v[1] = "float" -> v[2]
      [] v[1] = "bool"  -> << IF v[2] THEN 1 ELSE 0, 1 >>

\* str(v) for the values the string fields are given
str(v) ==
    CASE v[1] = "str"      -> v[2]
      [] v[1] = "NoneType" -> "None"

\* bool(v)
bool(v) ==
    CASE v[1] = "bool"     -> v[2]
      [] v[1] = "int"      -> v[2] # 0
      [] v[1] = "float"    -> v[2][1] # 0
      [] v[1] = "str"      -> v[2] # ""
      [] v[1] = "NoneType" -> FALSE

\* data.get(key, default)
Get(data, key, default) == IF key \in DOMAIN data THEN data[key] ELSE default

\* the optional field read with "if not data.get(key)": 0 becomes None too
OptionalFloatFalsy(data, key) ==
    LET v == Get(data, key, NoneV)
    IN  IF ~bool(v) THEN None ELSE Some(float(data[key]))

\* None if data.get(key) in (None, "") else float(data[key])
OptionalFloat(data, key) ==
    LET v == Get(data, key, NoneV)
    IN  IF v = NoneV \/ v = StrV("") THEN None ELSE Some(float(data[key]))

\* a pathlib.Path: absolute or not, and its names
PathOf(abs, parts) == [abs |-> abs, parts |-> parts]

\* PROJECT_ROOT, line 29: always absolute
PROJECT_ROOT == PathOf(TRUE, << "srv", "app" >>)

RECURSIVE JoinNames(_)
JoinNames(parts) ==
    IF parts = <<>> THEN <<>>
    ELSE IF Len(parts) = 1 THEN parts
         ELSE << Head(parts), "/" >> \o JoinNames(Tail(parts))

\* str(path)
PathStr(path) ==
    IF path.abs THEN << "/" >> \o JoinNames(path.parts)
    ELSE IF path.parts = <<>> THEN << "." >> ELSE JoinNames(path.parts)

\* Path(text): a leading separator makes it absolute; separators and "." drop out
Path(text) ==
    PathOf(text # <<>> /\ Head(text) = "/",
           SelectSeq(text, LAMBDA t : t \notin {"/", "."}))

\* path.relative_to(other) succeeds
IsRelativeTo(path, other) ==
    /\ path.abs = other.abs
    /\ Len(other.parts) <= Len(path.parts)
    /\ SubSeq(path.parts, 1, Len(other.parts)) = other.parts

relative_to(path, other) ==
    PathOf(FALSE, SubSeq(path.parts, Len(other.parts) + 1, Len(path.parts)))

\* from_dict._resolve, lines 146-148
_resolve(path_value) ==
    LET path_obj == Path(path_value)
    IN  IF path_obj.abs THEN path_obj
        ELSE PathOf(PROJECT_ROOT.abs, PROJECT_ROOT.parts \o path_obj.parts)

\* to_dict._relativize, lines 197-201
_relativize(path) ==
    IF IsRelativeTo(path, PROJECT_ROOT)
    THEN PathStr(relative_to(path, PROJECT_ROOT))
    ELSE PathStr(path)

\* the default hop taken from the default ratio whatever hop_ratio the dict gives
DerivedHopDefaultRatio(data) == IntV(PyInt(int(data["n_fft"]), 8))

\* line 158: int(int(data["n_fft"]) * float(data.get("hop_ratio", 0.125)))
DerivedHop(data) ==
    LET r == float(Get(data, "hop_ratio", FloatV(<<1, 8>>)))
    IN  IntV(PyInt(int(data["n_fft"]) * r[1], r[2]))

\* SpectrogramConfig.from_dict, lines 142-194; input_directory, output_directory,
\* sample_rate, n_fft and window are read with data[...] and must be present
from_dict(data) ==
    [ input_directory  |-> _resolve(data["input_directory"][2]),
      output_directory |-> _resolve(data["output_directory"][2]),
      transform        |-> str(Get(data, "transform", StrV("stft"))),
      sample_rate      |-> int(data["sample_rate"]),
      n_fft            |-> int(data["n_fft"]),
      hop_ratio        |-> float(Get(data, "hop_ratio", FloatV(<<1, 8>>))),
      hop_length       |-> int(Get(data, "hop_length", DerivedHop(data))),
      window           |-> str(data["window"]),
      use_log_frequency |-> bool(Get(data, "use_log_frequency", BoolV(TRUE))),
      fmin             |-> OptionalFloat(data, "fmin"),
      fmax             |-> OptionalFloat(data, "fmax"),
      n_mels           |-> int(Get(data, "n_mels", IntV(512))),
      power            |-> float(Get(data, "power", FloatV(<<2, 1>>))),
      pcen_enabled     |-> bool(Get(data, "pcen_enabled", BoolV(FALSE))),
      per_frequency_normalization |->
          bool(Get(data, "per_frequency_normalization", BoolV(FALSE))),
      ref_power        |-> float(Get(data, "ref_power", FloatV(<<1, 1>>))),
      top_db           |-> OptionalFloat(data, "top_db"),
      dynamic_range    |-> float(Get(data, "dynamic_range", IntV(80))),
      contrast_percentile |-> OptionalFloat(data, "contrast_percentile"),
      colormap         |-> str(Get(data, "colormap", StrV("gray_r"))),
      fig_width        |-> float(Get(data, "fig_width", FloatV(<<12, 1>>))),
      fig_height       |-> float(Get(data, "fig_height", FloatV(<<6, 1>>))),
      dpi              |-> int(Get(data, "dpi", IntV(300))),
      max_duration_sec |-> OptionalFloat(data, "max_duration_sec"),
      title            |-> str(Get(data, "title", StrV("Experimental Spectrogram"))),
      pcen_bias        |-> float(Get(data, "pcen_bias", FloatV(<<2, 1>>))),
      pcen_gain        |-> float(Get(data, "pcen_gain", FloatV(<<49, 50>>))),
      noise_reduction  |-> bool(Get(data, "noise_reduction", BoolV(FALSE))),
      high_pass_filter |-> bool(Get(data, "high_pass_filter", BoolV(FALSE))),
      high_pass_cutoff |-> float(Get(data, "high_pass_cutoff", FloatV(<<300, 1>>))),
      rms_frame_length |-> int(Get(data, "rms_frame_length", IntV(1024))),
      rms_threshold    |-> float(Get(data, "rms_threshold", FloatV(<<1, 5>>))),
      min_segment_duration |-> float(Get(data, "min_segment_duration", FloatV(<<1, 20>>))),
      min_silence_duration |-> float(Get(data, "min_silence_duration", FloatV(<<1, 20>>))),
      segment_directory |-> str(Get(data, "segment_directory", StrV("experimental/segments"))),
      sigmoid_k        |-> float(Get(data, "sigmoid_k", FloatV(<<20, 1>>))),
      overlay_segments |-> bool(Get(data, "overlay_segments", BoolV(FALSE))) ]

\* an Optional[float] field as the Python value to_dict emits
OptV(o) == IF o = None THEN NoneV ELSE FloatV(o[1])

\* SpectrogramConfig.to_dict, lines 196-241
to_dict(self) ==
    [ input_directory  |-> StrV(_relativize(self.input_directory)),
      output_directory |-> StrV(_relativize(self.output_directory)),
      transform        |-> StrV(self.transform),
      sample_rate      |-> IntV(self.sample_rate),
      n_fft            |-> IntV(self.n_fft),
      hop_ratio        |-> FloatV(self.hop_ratio),
      hop_length       |-> IntV(self.hop_length),
      window           |-> StrV(self.window),
      use_log_frequency |-> BoolV(self.use_log_frequency),
      fmin             |-> OptV(self.fmin),
      fmax             |-> OptV(self.fmax),
      n_mels           |-> IntV(self.n_mels),
      power            |-> FloatV(self.power),
      pcen_enabled     |-> BoolV(self.pcen_enabled),
      per_frequency_normalization |-> BoolV(self.per_frequency_normalization),
      ref_power        |-> FloatV(self.ref_power),
      top_db           |-> OptV(self.top_db),
      dynamic_range    |-> FloatV(self.dynamic_range),
      contrast_percentile |-> OptV(self.contrast_percentile),
      colormap         |-> StrV(self.colormap),
      fig_width        |-> FloatV(self.fig_width),
      fig_height       |-> FloatV(self.fig_height),
      dpi              |-> IntV(self.dpi),
      max_duration_sec |-> OptV(self.max_duration_sec),
      title            |-> StrV(self.title),
      pcen_bias        |-> FloatV(self.pcen_bias),
      pcen_gain        |-> FloatV(self.pcen_gain),
      noise_reduction  |-> BoolV(self.noise_reduction),
      high_pass_filter |-> BoolV(self.high_pass_filter),
      high_pass_cutoff |-> FloatV(self.high_pass_cutoff),
      rms_frame_length |-> IntV(self.rms_frame_length),
      rms_threshold    |-> FloatV(self.rms_threshold),
      min_segment_duration |-> FloatV(self.min_segment_duration),
      min_silence_duration |-> FloatV(self.min_silence_duration),
      segment_directory |-> StrV(self.segment_directory),
      sigmoid_k        |-> FloatV(self.sigmoid_k),
      overlay_segments |-> BoolV(self.overlay_segments) ]

\* json.dump(config.to_dict(), f), line 255: per value null, true / false, a
\* number written without or with a fraction, a quoted string
JsonDump(data) ==
    [ k \in DOMAIN data |->
        LET v == data[k]
        IN  CASE v[1] = "NoneType" -> << "null" >>
              [] v[1] = "bool"     -> << IF v[2] THEN "true" ELSE "false" >>
              [] v[1] = "int"      -> << "digits", v[2] >>
              [] v[1] = "float"    -> << "digits.fraction", v[2] >>
              [] v[1] = "str"      -> << "quoted", v[2] >> ]

\* json.load(f), line 246
JsonLoad(doc) ==
    [ k \in DOMAIN doc |->
        LET t == doc[k]
        IN  CASE t[1] = "null"            -> NoneV
              [] t[1] = "true"            -> BoolV(TRUE)
              [] t[1] = "false"           -> BoolV(FALSE)
              [] t[1] = "digits"          -> IntV(t[2])
              [] t[1] = "digits.fraction" -> FloatV(t[2])
              [] t[1] = "quoted"          -> StrV(t[2]) ]

\* SpectrogramConfig(input_directory, output_directory) with the defaults of
\* lines 84-140
DefaultConfig(input_directory, output_directory) ==
    [ input_directory  |-> input_directory,
      output_directory |-> output_directory,
      transform        |-> "mel",
      sample_rate      |-> 48000,
      n_fft            |-> 4096,
      hop_ratio        |-> << 1, 8 >>,
      hop_length       |-> 512,
      window           |-> "hann",
      use_log_frequency |-> FALSE,
      fmin             |-> Some(<< 2000, 1 >>),
      fmax             |-> Some(<< 9500, 1 >>),
      n_mels           |-> 256,
      power            |-> << 1, 1 >>,
      pcen_enabled     |-> FALSE,
      pcen_bias        |-> << 3, 1 >>,
      pcen_gain        |-> << 7, 10 >>,
      per_frequency_normalization |-> FALSE,
      ref_power        |-> << 1, 1 >>,
      top_db           |-> Some(<< 60, 1 >>),
      dynamic_range    |-> << 45, 1 >>,
      contrast_percentile |-> None,
      colormap         |-> "gray",
      fig_width        |-> << 10, 1 >>,
      fig_height       |-> << 9, 2 >>,
      dpi              |-> 150,
      title            |-> "Experimental Spectrogram",
      max_duration_sec |-> None,
      noise_reduction  |-> FALSE,
      high_pass_filter |-> FALSE,
      high_pass_cutoff |-> << 300, 1 >>,
      rms_frame_length |-> 2048,
      rms_threshold    |-> << 1, 10 >>,
      min_segment_duration |-> << 1, 20 >>,
      min_silence_duration |-> << 1, 20 >>,
      segment_directory |-> "experimental/segments",
      sigmoid_k        |-> << 3, 20 >>,
      overlay_segments |-> FALSE ]

\* directories a caller may construct a configuration with: below the project
\* root, the root itself, elsewhere, and not absolute
ConfigPaths ==
    { PathOf(TRUE, << "srv", "app", "experimental", "in" >>),
      PROJECT_ROOT,
      PathOf(TRUE, << "data", "in" >>),
      PathOf(FALSE, << "in" >>) }

\* the configurations built directly, fields set after construction included
BuiltConfigs ==
    { [ DefaultConfig(i, o) EXCEPT !.fmin = f, !.top_db = t, !.max_duration_sec = d,
                                   !.hop_length = h, !.pcen_enabled = p ] :
        i \in ConfigPaths,
        o \in { PathOf(TRUE, << "srv", "app", "out" >>), PathOf(FALSE, << "out" >>) },
        f \in { None, Some(<< 0, 1 >>), Some(<< 2000, 1 >>) },
        t \in { None, Some(<< 60, 1 >>) },
        d \in { None, Some(<< 0, 1 >>) },
        h \in { 0, 512 },
        p \in BOOLEAN }

\* a dict without the key
Absent == [ k \in {} |-> NoneV ]

\* the entry of an optional key: None leaves the key out
Entry(key, o) == IF o = None THEN Absent ELSE (key :> o[1])

\* the dicts handed to from_dict: the required keys, and hop_ratio, hop_length,
\* fmin present or not
RawDicts ==
    { [ input_directory  |-> StrV(dir),
        output_directory |-> StrV(<< "experimental", "/", "out" >>),
        sample_rate      |-> IntV(48000),
        n_fft            |-> n,
        window           |-> StrV("hann") ]
      @@ Entry("hop_ratio", r) @@ Entry("hop_length", h) @@ Entry("fmin", f) :
        dir \in { << "experimental", "/", "in" >>, << "." >>,
                  << "/", "data", "/", "in" >> },
        n \in { IntV(2048), IntV(1000) },
        r \in { None, Some(FloatV(<< 1, 8 >>)), Some(FloatV(<< 1, 16 >>)), Some(IntV(0)) },
        h \in { None, Some(IntV(0)), Some(IntV(62)), Some(IntV(256)), Some(IntV(512)) },
        f \in { None, Some(NoneV), Some(StrV("")), Some(IntV(0)),
                Some(FloatV(<< 2000, 1 >>)) } }

InitCfg ==
    /\ cfg_others_idle
    /\ \/ cfg_pc = "raw" /\ cfg_raw \in RawDicts /\ cfg_obj = None
       \/ cfg_pc = "built" /\ cfg_raw = None /\ cfg_obj \in BuiltConfigs
    /\ cfg_hop = None /\ cfg_back = None /\ cfg_file = None /\ cfg_loaded = None
    /\ cfg_dirs = {}

\* cfg = SpectrogramConfig.from_dict(raw)
FromDict ==
    /\ cfg_pc = "raw"
    /\ cfg_obj' = from_dict(cfg_raw)
    /\ cfg_pc' = "built"
    /\ UNCHANGED <<cfg_raw, cfg_hop, cfg_back, cfg_file, cfg_loaded, cfg_dirs>>
    /\ UNCHANGED cfg_others

\* generate_spectrogram, line 362: the effective hop of the configuration
CalculateHop ==
    /\ cfg_pc = "built" /\ cfg_hop = None
    /\ cfg_hop' = Some(_calculate_hop_length(cfg_obj.n_fft, cfg_obj.hop_ratio,
                                             Some(cfg_obj.hop_length)))
    /\ UNCHANGED <<cfg_pc, cfg_raw, cfg_obj, cfg_back, cfg_file, cfg_loaded, cfg_dirs>>
    /\ UNCHANGED cfg_others

\* SpectrogramConfig.from_dict(cfg.to_dict())
RoundTrip ==
    /\ cfg_pc = "built" /\ cfg_back = None
    /\ cfg_back' = from_dict(to_dict(cfg_obj))
    /\ UNCHANGED <<cfg_pc, cfg_raw, cfg_obj, cfg_hop, cfg_file, cfg_loaded, cfg_dirs>>
    /\ UNCHANGED cfg_others

\* save_config, lines 253-255
save_config ==
    /\ cfg_pc = "built" /\ cfg_file = None
    /\ cfg_file' = JsonDump(to_dict(cfg_obj))
    /\ UNCHANGED <<cfg_pc, cfg_raw, cfg_obj, cfg_hop, cfg_back, cfg_loaded, cfg_dirs>>
    /\ UNCHANGED cfg_others

\* load_config, lines 244-250: parse, from_dict, create both directories
load_config ==
    /\ cfg_file # None /\ cfg_loaded = None
    /\ LET cfg == from_dict(JsonLoad(cfg_file))
       IN  /\ cfg_loaded' = cfg
           /\ cfg_dirs' = { cfg.input_directory, cfg.output_directory }
    /\ UNCHANGED <<cfg_pc, cfg_raw, cfg_obj, cfg_hop, cfg_back, cfg_file>>
    /\ UNCHANGED cfg_others

NextCfg == FromDict \/ CalculateHop \/ RoundTrip \/ save_config \/ load_config

SpecCfg == InitCfg /\ [][NextCfg]_vars

----------------------------------------------------------------------------
(* generate_spectrogram from the hop length to the colormap: the transform *)
(* branch, the level pipeline, the detect_segments call.  A level is an    *)
(* exact rational <<num, den>>, den > 0, in lowest terms; a spectrogram is *)
(* a sequence of frequency rows of SpecFrames levels each.                 *)

RECURSIVE GCD(_, _)
GCD(a, b) == IF b = 0 THEN a ELSE GCD(b, a % b)

\* num/den in lowest terms with a positive denominator
R(num, den) ==
    LET n == IF den < 0 THEN -num ELSE num
        d == Abs(den)
        g == GCD(Abs(n), d)
    IN  << n \div g, d \div g >>

LCM(a, b) == (a \div GCD(a, b)) * b

\* the numerator of x over the denominator d, a multiple of x's own
Over(x, d) == x[1] * (d \div x[2])

RAdd(x, y) == LET d == LCM(x[2], y[2]) IN R(Over(x, d) + Over(y, d), d)

RSub(x, y) == LET d == LCM(x[2], y[2]) IN R(Over(x, d) - Over(y, d), d)

RMul(x, y) == R(x[1] * y[1], x[2] * y[2])

RDiv(x, y) == R(x[1] * y[2], x[2] * y[1])

RLe(x, y) == LET d == LCM(x[2], y[2]) IN Over(x, d) <= Over(y, d)

RLt(x, y) == ~RLe(y, x)

RMax(x, y) == IF RLe(x, y) THEN y ELSE x

\* the rows of a matrix laid end to end: what np.max, np.min, np.percentile see
RECURSIVE Flatten(_)
Flatten(m) == IF m = <<>> THEN <<>> ELSE Head(m) \o Flatten(Tail(m))

RECURSIVE LevelMax(_)
LevelMax(s) == IF Len(s) = 1 THEN s[1] ELSE RMax(s[1], LevelMax(Tail(s)))

RECURSIVE LevelMin(_)
LevelMin(s) ==
    IF Len(s) = 1 THEN s[1]
    ELSE LET rest == LevelMin(Tail(s)) IN IF RLe(s[1], rest) THEN s[1] ELSE rest

\* s, ascending, with x put in its place
RECURSIVE InsertSorted(_, _)
InsertSorted(x, s) ==
    IF s = <<>> THEN << x >>
    ELSE IF RLe(x, Head(s)) THEN << x >> \o s
         ELSE << Head(s) >> \o InsertSorted(x, Tail(s))

RECURSIVE SortLevels(_)
SortLevels(s) == IF s = <<>> THEN <<>> ELSE InsertSorted(Head(s), SortLevels(Tail(s)))

\* np.percentile(m, q), linear interpolation: position q/100 * (n - 1) of the
\* sorted values, q a rational percentage
Percentile(m, q) ==
    LET s    == SortLevels(Flatten(m))
        pos  == RMul(RDiv(q, << 100, 1 >>), << Len(s) - 1, 1 >>)
        i    == pos[1] \div pos[2]
        frac == RSub(pos, << i, 1 >>)
    IN  IF i + 1 >= Len(s) THEN s[Len(s)]
        ELSE RAdd(s[i + 1], RMul(frac, RSub(s[i + 2], s[i + 1])))

\* frames per spectrogram: with two frames the standard deviation of a row is
\* exactly half the distance of its two levels
SpecFrames == 2

\* the 1e-6 of line 422
StdEps == << 1, 1000000 >>

\* row.mean() over the two frames
RowMean(row) == RDiv(RAdd(row[1], row[2]), << 2, 1 >>)

\* row.std() over the two frames (population standard deviation)
RowStd(row) ==
    LET d == RSub(row[1], row[2])
    IN  RDiv(IF RLe(<< 0, 1 >>, d) THEN d ELSE RSub(<< 0, 1 >>, d), << 2, 1 >>)

\* lines 420-423: (S_db - mean) / (std + 1e-6), per frequency row
NormalizeRows(m) ==
    [ r \in DOMAIN m |->
        LET mean == RowMean(m[r])
            std  == RAdd(RowStd(m[r]), StdEps)
        IN  [ c \in DOMAIN m[r] |-> RDiv(RSub(m[r][c], mean), std) ] ]

\* librosa.power_to_db / amplitude_to_db on levels already in dB re 1:
\* subtract the reference, then floor at (maximum - top_db) when top_db is set
ToDb(m, ref_db, top_db) ==
    LET rel == [ r \in DOMAIN m |-> [ c \in DOMAIN m[r] |-> RSub(m[r][c], ref_db) ] ]
    IN  IF top_db = None THEN rel
        ELSE LET floor == RSub(LevelMax(Flatten(rel)), top_db[1])
             IN  [ r \in DOMAIN m |-> [ c \in DOMAIN m[r] |-> RMax(rel[r][c], floor) ] ]

\* np.clip(S_db, vmin, None)
ClipBelow(m, lo) == [ r \in DOMAIN m |-> [ c \in DOMAIN m[r] |-> RMax(m[r][c], lo) ] ]

\* name[:-6] when name.endswith("_light"), else None
StripLight(name) ==
    CASE name = "magma_light" -> Some("magma")
      [] OTHER                -> None

\* f"{name}_soft", line 42
SoftName(name) ==
    CASE name = "gray_r" -> "gray_r_soft"
      [] name = "magma"  -> "magma_soft"

\* _lighten_colormap(name, floor): the base ramp resampled from floor to 1
_lighten_colormap(name, floor) == << "lightened", name, floor >>

\* lines 43-46: matplotlib.colormaps.register(light_cmap); a name already
\* registered raises ValueError, which is passed over
Register(registry, name) == registry \cup { SoftName(name) }

\* _resolve_colormap, lines 50-57, against the names plt.colormaps() lists
ResolveAmong(registry, name) ==
    IF name \in registry THEN << "registered", name >>
    ELSE IF name = "soft_gray" THEN _lighten_colormap("gray_r", << 1, 4 >>)
    ELSE IF StripLight(name) # None /\ StripLight(name)[1] \in registry
         THEN _lighten_colormap(StripLight(name)[1], << 1, 4 >>)
    ELSE << "registered", "viridis" >>

\* _resolve_colormap in the running process
_resolve_colormap(name) == ResolveAmong(colormaps, name)

\* the registry after _resolve_colormap(name)
RegistryAfter(name) ==
    IF name \in colormaps THEN colormaps
    ELSE IF name = "soft_gray" THEN Register(colormaps, "gray_r")
    ELSE IF StripLight(name) # None /\ StripLight(name)[1] \in colormaps
         THEN Register(colormaps, StripLight(name)[1])
    ELSE colormaps

\* the branch of lines 384-417 a transform name selects
TransformBranch(name) ==
    IF Lower(name) = "mel" THEN "mel"
    ELSE IF Lower(name) = "cqt" THEN "cqt"
    ELSE "stft"

\* y_axis of lines 400, 409, 417
AxisOf(kind, use_log_frequency) ==
    CASE kind = "mel" -> "mel"
      [] kind = "cqt" -> "cqt_hz"
      [] OTHER        -> IF use_log_frequency THEN "log" ELSE "linear"

\* levels of the spectrum before conversion, dB re 1
BaseLevels == { << -1, 1 >>, << 0, 1 >> }

\* levels librosa.pcen returns: positive
PcenLevels == { << 1, 1 >>, << 2, 1 >> }

\* frequency rows per spectrogram
SpecRows == 2

Matrices(levels) == [ 1..SpecRows -> [ 1..SpecFrames -> levels ] ]

\* the fields of one configuration the steps below read
GenDefaults ==
    [ transform |-> "mel",
      n_fft |-> 8,
      hop_ratio |-> << 1, 4 >>,
      hop_length |-> Some(3),
      use_log_frequency |-> FALSE,
      pcen_enabled |-> FALSE,
      per_frequency_normalization |-> FALSE,
      \* ref_power by its level in dB: 0 for 1.0
      ref_power |-> << 0, 1 >>,
      top_db |-> None,
      dynamic_range |-> << 2, 1 >>,
      contrast_percentile |-> None,
      colormap |-> "gray_r" ]

\* configurations that differ in the level pipeline
LevelConfigs ==
    { [ GenDefaults EXCEPT !.pcen_enabled = p, !.per_frequency_normalization = n,
                           !.ref_power = r, !.top_db = t, !.dynamic_range = d,
                           !.contrast_percentile = c ] :
        p \in BOOLEAN, n \in BOOLEAN,
        r \in { << 0, 1 >>, << 10, 1 >> },
        t \in { None, Some(<< 1, 1 >>) },
        d \in { << -1, 1 >>, << 0, 1 >>, << 2, 1 >> },
        c \in { None, Some(<< 50, 1 >>), Some(<< 100, 1 >>) } }

\* configurations that differ in the transform, the hop and the colormap
NameConfigs ==
    { [ GenDefaults EXCEPT !.transform = t, !.hop_length = h, !.colormap = m,
                           !.use_log_frequency = l ] :
        t \in { "mel", "MEL", "Cqt", "stft", "wavelet" },
        h \in { None, Some(0), Some(3) },
        m \in { "gray_r", "soft_gray", "magma_light", "rainbow9", "gray_r_soft" },
        l \in BOOLEAN }

GenConfigs == LevelConfigs \cup NameConfigs

InitGen ==
    /\ gen_others_idle
    /\ gen_pc = "hop"
    /\ gen_cfg \in GenConfigs
    /\ IF gen_cfg.pcen_enabled
       THEN /\ S_base = [ r \in 1..SpecRows |-> [ c \in 1..SpecFrames |-> << 0, 1 >> ] ]
            /\ pcen_ret \in Matrices(PcenLevels)
       ELSE /\ S_base \in Matrices(BaseLevels)
            /\ pcen_ret = None
    /\ gen_hop = None /\ branch = None /\ y_axis = None /\ S_db = None
    /\ vmin = None /\ vmax = None /\ det_hop = None /\ cmap_obj = None
    /\ colormaps = KnownColormaps

\* line 362
GenHop ==
    /\ gen_pc = "hop"
    /\ gen_hop' = Some(_calculate_hop_length(gen_cfg.n_fft, gen_cfg.hop_ratio,
                                             gen_cfg.hop_length))
    /\ gen_pc' = "transform"
    /\ UNCHANGED <<gen_cfg, S_base, pcen_ret, branch, y_axis, S_db, vmin, vmax, det_hop,
                   cmap_obj>>
    /\ UNCHANGED colormaps
    /\ UNCHANGED gen_others

\* lines 384-417: the transform with hop_length, then PCEN or the dB conversion
Transform ==
    /\ gen_pc = "transform"
    /\ LET kind == TransformBranch(gen_cfg.transform)
       IN  /\ branch' = << kind, gen_hop[1] >>
           /\ y_axis' = Some(AxisOf(kind, gen_cfg.use_log_frequency))
    /\ S_db' = IF gen_cfg.pcen_enabled THEN pcen_ret
               ELSE ToDb(S_base, gen_cfg.ref_power, gen_cfg.top_db)
    /\ gen_pc' = "normalize"
    /\ UNCHANGED <<gen_cfg, S_base, pcen_ret, gen_hop, vmin, vmax, det_hop, cmap_obj>>
    /\ UNCHANGED colormaps
    /\ UNCHANGED gen_others

\* lines 420-423
Normalize ==
    /\ gen_pc = "normalize"
    /\ S_db' = IF gen_cfg.per_frequency_normalization THEN NormalizeRows(S_db) ELSE S_db
    /\ gen_pc' = "contrast"
    /\ UNCHANGED <<gen_cfg, S_base, pcen_ret, gen_hop, branch, y_axis, vmin, vmax, det_hop,
                   cmap_obj>>
    /\ UNCHANGED colormaps
    /\ UNCHANGED gen_others

\* lines 426-439
Contrast ==
    /\ gen_pc = "contrast"
    /\ LET top == IF gen_cfg.contrast_percentile # None
                  THEN Percentile(S_db, gen_cfg.contrast_percentile[1])
                  ELSE LevelMax(Flatten(S_db))
           bottom == IF gen_cfg.pcen_enabled THEN LevelMin(Flatten(S_db))
                     ELSE RSub(top, gen_cfg.dynamic_range)
       IN  /\ vmax' = Some(top)
           /\ vmin' = Some(bottom)
           /\ S_db' = ClipBelow(S_db, bottom)
    /\ gen_pc' = "detect"
    /\ UNCHANGED <<gen_cfg, S_base, pcen_ret, gen_hop, branch, y_axis, det_hop, cmap_obj>>
    /\ UNCHANGED colormaps
    /\ UNCHANGED gen_others

\* line 442: detect_segments(y, sr, cfg) computes its own hop at line 298
DetectCall ==
    /\ gen_pc = "detect"
    /\ det_hop' = Some(HopOf(gen_cfg))
    /\ gen_pc' = "colormap"
    /\ UNCHANGED <<gen_cfg, S_base, pcen_ret, gen_hop, branch, y_axis, S_db, vmin, vmax,
                   cmap_obj>>
    /\ UNCHANGED colormaps
    /\ UNCHANGED gen_others

\* line 448
ResolveColormap ==
    /\ gen_pc = "colormap"
    /\ cmap_obj' = _resolve_colormap(gen_cfg.colormap)
    /\ colormaps' = RegistryAfter(gen_cfg.colormap)
    /\ gen_pc' = "rendered"
    /\ UNCHANGED <<gen_cfg, S_base, pcen_ret, gen_hop, branch, y_axis, S_db, vmin, vmax,
                   det_hop>>
    /\ UNCHANGED gen_others

NextGen == GenHop \/ Transform \/ Normalize \/ Contrast \/ DetectCall \/ ResolveColormap

SpecGen == InitGen /\ [][NextGen]_vars

\* Successive generate_spectrogram calls in one process, each reduced to the
\* step that reads and writes state outliving the call: line 448.
InitCalls ==
    /\ gen_others_idle
    /\ gen_pc = "colormap"
    /\ gen_cfg \in NameConfigs
    /\ S_base = <<>> /\ pcen_ret = None
    /\ gen_hop = None /\ branch = None /\ y_axis = None /\ S_db = None
    /\ vmin = None /\ vmax = None /\ det_hop = None /\ cmap_obj = None
    /\ colormaps = KnownColormaps

\* the call returns and the caller makes the next one, with any configuration
CallAgain ==
    /\ gen_pc = "rendered"
    /\ gen_cfg' \in NameConfigs
    /\ cmap_obj' = None
    /\ gen_pc' = "colormap"
    /\ UNCHANGED <<S_base, pcen_ret, gen_hop, branch, y_axis, S_db, vmin, vmax, det_hop>>
    /\ UNCHANGED colormaps
    /\ UNCHANGED gen_others

NextCalls == ResolveColormap \/ CallAgain

SpecCalls == InitCalls /\ [][NextCalls]_vars

----------------------------------------------------------------------------
(* newlook/audio_loader.py: persist_uploaded_file in threads serving        *)
(* uploads, _cleanup_temp_files at interpreter exit.  Thread t writes the  *)
(* temporary file t.                                                       *)

\* uploading threads
MaxUploads == 2

Uploaders == 1..MaxUploads

InitTmp ==
    /\ tmp_others_idle
    /\ up_pc = [ t \in Uploaders |-> "start" ]
    /\ tmp_disk = {}
    /\ _TEMP_FILES = <<>>
    /\ _TEMP_LOCK = None
    /\ clean_pc = "pending"
    /\ clean_paths = <<>>
    /\ clean_disk = {}

\* lines 91-94: the file is created (delete=False), written and closed
CreateTempFile(t) ==
    /\ up_pc[t] = "start"
    /\ tmp_disk' = tmp_disk \cup {t}
    /\ up_pc' = [up_pc EXCEPT ![t] = "created"]
    /\ UNCHANGED <<_TEMP_FILES, _TEMP_LOCK, clean_pc, clean_paths, clean_disk>>
    /\ UNCHANGED tmp_others

\* lines 92-93: handle.write raises after NamedTemporaryFile created the file
WriteRaises(t) ==
    /\ up_pc[t] = "start"
    /\ tmp_disk' = tmp_disk \cup {t}
    /\ up_pc' = [up_pc EXCEPT ![t] = "failed"]
    /\ UNCHANGED <<_TEMP_FILES, _TEMP_LOCK, clean_pc, clean_paths, clean_disk>>
    /\ UNCHANGED tmp_others

\* line 95: with _TEMP_LOCK
LockForAppend(t) ==
    /\ up_pc[t] = "created"
    /\ _TEMP_LOCK = None
    /\ _TEMP_LOCK' = Some(t)
    /\ up_pc' = [up_pc EXCEPT ![t] = "locked"]
    /\ UNCHANGED <<tmp_disk, _TEMP_FILES, clean_pc, clean_paths, clean_disk>>
    /\ UNCHANGED tmp_others

\* lines 96-97: _TEMP_FILES.append(path), the lock released, return path
AppendPath(t) ==
    /\ up_pc[t] = "locked"
    /\ _TEMP_FILES' = Append(_TEMP_FILES, t)
    /\ _TEMP_LOCK' = None
    /\ up_pc' = [up_pc EXCEPT ![t] = "done"]
    /\ UNCHANGED <<tmp_disk, clean_pc, clean_paths, clean_disk>>
    /\ UNCHANGED tmp_others

\* line 26: the atexit handler takes the lock
CleanupLock ==
    /\ clean_pc = "pending"
    /\ _TEMP_LOCK = None
    /\ _TEMP_LOCK' = Some(0)
    /\ clean_pc' = "locked"
    /\ UNCHANGED <<up_pc, tmp_disk, _TEMP_FILES, clean_paths, clean_disk>>
    /\ UNCHANGED tmp_others

\* lines 27-28: paths = list(_TEMP_FILES); _TEMP_FILES.clear(); the lock released
CleanupSnapshot ==
    /\ clean_pc = "locked"
    /\ clean_paths' = _TEMP_FILES
    /\ _TEMP_FILES' = <<>>
    /\ clean_disk' = tmp_disk
    /\ _TEMP_LOCK' = None
    /\ clean_pc' = "unlink"
    /\ UNCHANGED <<up_pc, tmp_disk>>
    /\ UNCHANGED tmp_others

\* lines 30-32: Path(path).unlink(missing_ok=True)
CleanupUnlink ==
    /\ clean_pc = "unlink" /\ clean_paths # <<>>
    /\ tmp_disk' = tmp_disk \ {Head(clean_paths)}
    /\ clean_paths' = Tail(clean_paths)
    /\ UNCHANGED <<up_pc, _TEMP_FILES, _TEMP_LOCK, clean_pc, clean_disk>>
    /\ UNCHANGED tmp_others

\* lines 33-34: unlink raises OSError; continue
CleanupUnlinkRaises ==
    /\ clean_pc = "unlink" /\ clean_paths # <<>>
    /\ clean_paths' = Tail(clean_paths)
    /\ UNCHANGED <<up_pc, tmp_disk, _TEMP_FILES, _TEMP_LOCK, clean_pc, clean_disk>>
    /\ UNCHANGED tmp_others

\* the loop of line 30 ends
CleanupReturn ==
    /\ clean_pc = "unlink" /\ clean_paths = <<>>
    /\ clean_pc' = "done"
    /\ UNCHANGED <<up_pc, tmp_disk, _TEMP_FILES, _TEMP_LOCK, clean_paths, clean_disk>>
    /\ UNCHANGED tmp_others

NextTmp ==
    \/ \E t \in Uploaders :
          CreateTempFile(t) \/ WriteRaises(t) \/ LockForAppend(t) \/ AppendPath(t)
    \/ CleanupLock \/ CleanupSnapshot \/ CleanupUnlink \/ CleanupUnlinkRaises
    \/ CleanupReturn

SpecTmp == InitTmp /\ [][NextTmp]_vars

----------------------------------------------------------------------------
(* The batch entry points: spectrogram_generator.run_harness (through       *)
(* generate_for_directory) and generate_spectrograms.main, on one input    *)
(* directory and one configuration file.  WAV files are numbered; the      *)
(* sorted order of their paths is the order of their numbers.              *)

\* most WAV files in input_directory
MaxFiles == 3

Entries == { "run_harness", "main" }

\* every order a set of files can be listed in
RECURSIVE Orders(_)
Orders(S) ==
    IF S = {} THEN { <<>> }
    ELSE UNION { { <<x>> \o p : p \in Orders(S \ {x}) } : x \in S }

\* sorted(input_dir.glob("*.wav")), line 513
Sorted(S) == CHOOSE s \in Orders(S) : \A i, j \in DOMAIN s : i < j => s[i] < s[j]

\* the overlay_segments argument generate_spectrogram is called with: line
\* 516 passes cfg.overlay_segments; line 33 of generate_spectrograms.py
\* passes nothing, and the parameter's default is False (line 353)
OverlayArg(entry, cfg) == IF entry = "run_harness" THEN cfg.overlay_segments ELSE FALSE

InitDir ==
    /\ dir_others_idle
    /\ dir_cfg \in [ overlay_segments : BOOLEAN ]
    /\ \E D \in SUBSET (1..MaxFiles) : dir_files \in [ D -> { "ok", "raises" } ]
    /\ dir_pc = [ e \in Entries |-> "start" ]
    /\ wav_files = [ e \in Entries |-> None ]
    /\ dir_calls = [ e \in Entries |-> <<>> ]
    /\ dir_result = [ e \in Entries |-> None ]

\* run_harness, lines 522-523, and generate_for_directory, lines 513-514
ListSorted ==
    /\ dir_pc["run_harness"] = "start"
    /\ wav_files' = [wav_files EXCEPT !["run_harness"] = Some(Sorted(DOMAIN dir_files))]
    /\ dir_pc' = [dir_pc EXCEPT !["run_harness"] = "loop"]
    /\ UNCHANGED <<dir_cfg, dir_files, dir_calls, dir_result>>
    /\ UNCHANGED dir_others

\* main, lines 23-29: list(cfg.input_directory.glob("*.wav")), in the order the
\* file system yields; with no file, a message and return
ListGlob ==
    /\ dir_pc["main"] = "start"
    /\ \E order \in Orders(DOMAIN dir_files) :
          wav_files' = [wav_files EXCEPT !["main"] = Some(order)]
    /\ IF DOMAIN dir_files = {}
       THEN /\ dir_pc' = [dir_pc EXCEPT !["main"] = "done"]
            /\ dir_result' = [dir_result EXCEPT !["main"] = << "returned", <<>> >>]
       ELSE /\ dir_pc' = [dir_pc EXCEPT !["main"] = "loop"]
            /\ UNCHANGED dir_result
    /\ UNCHANGED <<dir_cfg, dir_files, dir_calls>>
    /\ UNCHANGED dir_others

\* the file the loop of entry point e is at
NextFile(e) == wav_files[e][1][Len(dir_calls[e]) + 1]

\* lines 515-516, and lines 31-33 of generate_spectrograms.py: one
\* generate_spectrogram call that returns
RenderFile(e) ==
    /\ dir_pc[e] = "loop"
    /\ Len(dir_calls[e]) < Len(wav_files[e][1])
    /\ dir_files[NextFile(e)] = "ok"
    /\ dir_calls' = [dir_calls EXCEPT
                       ![e] = Append(@, << NextFile(e), OverlayArg(e, dir_cfg) >>)]
    /\ UNCHANGED <<dir_cfg, dir_files, dir_pc, wav_files, dir_result>>
    /\ UNCHANGED dir_others

\* the same call raising: nothing in either loop catches it
RenderRaises(e) ==
    /\ dir_pc[e] = "loop"
    /\ Len(dir_calls[e]) < Len(wav_files[e][1])
    /\ dir_files[NextFile(e)] = "raises"
    /\ dir_calls' = [dir_calls EXCEPT
                       ![e] = Append(@, << NextFile(e), OverlayArg(e, dir_cfg) >>)]
    /\ dir_result' = [dir_result EXCEPT ![e] = << "raised", NextFile(e) >>]
    /\ dir_pc' = [dir_pc EXCEPT ![e] = "done"]
    /\ UNCHANGED <<dir_cfg, dir_files, wav_files>>
    /\ UNCHANGED dir_others

\* line 517: return results; line 35 of generate_spectrograms.py
LoopDone(e) ==
    /\ dir_pc[e] = "loop"
    /\ Len(dir_calls[e]) = Len(wav_files[e][1])
    /\ dir_result' = [dir_result EXCEPT
                        ![e] = << "returned", [ i \in DOMAIN dir_calls[e] |-> dir_calls[e][i][1] ] >>]
    /\ dir_pc' = [dir_pc EXCEPT ![e] = "done"]
    /\ UNCHANGED <<dir_cfg, dir_files, wav_files, dir_calls>>
    /\ UNCHANGED dir_others

NextDir ==
    \/ ListSorted \/ ListGlob
    \/ \E e \in Entries : RenderFile(e) \/ RenderRaises(e) \/ LoopDone(e)

SpecDir == InitDir /\ [][NextDir]_vars

----------------------------------------------------------------------------
(* controls_panel.render: the live preview across Streamlit reruns.  A     *)
(* configuration dict is named by its content; "{}" is the empty dict.     *)
(* The buttons "Save configuration" and "Genereer PNGs" touch none of the  *)
(* session keys below.                                                     *)

\* the dicts the widgets can hold: the loaded configuration, HARD_DEFAULTS, an edit
WidgetConfigs == { "base", "hard", "edited" }

\* the paths the "Preview WAV" selectbox can offer
PreviewWavs == { "a.wav", "b.wav", "user_c.wav" }

\* should_refresh of line 567 with the chosen WAV left out
ShouldRefreshAnyWav(state, chosen_wav) ==
    \/ state.force_refresh
    \/ state.working_config # state.last_preview_config

\* should_refresh, line 567
ShouldRefresh(state, chosen_wav) ==
    \/ state.force_refresh
    \/ state.working_config # state.last_preview_config
    \/ chosen_wav # state.last_preview_wav

\* lines 450-491: the widgets' values become working_config; force_refresh
\* is or-ed with last_preview_config != updated
UpdateWorking(state, updated) ==
    [state EXCEPT !.working_config = updated,
                  !.force_refresh = state.force_refresh \/ state.last_preview_config # updated]

\* f"{wav_path.stem}_spectrogram.png", line 468
PngOf(wav) == << "png", wav >>

NoRerun ==
    [ tick |-> 0, uploaded |-> FALSE, chosen_wav |-> None, exists |-> FALSE,
      called |-> FALSE, returned |-> FALSE ]

\* _init_state on a new session, lines 110-121
InitPanel ==
    /\ panel_others_idle
    /\ session_state = [ force_refresh |-> TRUE,
                         working_config |-> "base",
                         last_preview_config |-> "{}",
                         last_preview_wav |-> None,
                         preview_path |-> None ]
    /\ rerun = NoRerun

\* reset_defaults, lines 136-143, the on_click callback of "Reset Defaults"
reset_defaults ==
    /\ session_state' = [session_state EXCEPT !.working_config = "hard",
                                              !.force_refresh = TRUE,
                                              !.last_preview_config = "{}"]
    /\ rerun' = [NoRerun EXCEPT !.tick = rerun.tick]
    /\ UNCHANGED panel_others

\* render with no file in the uploader: lines 450-491 and 562-580
RenderNoUpload ==
    \E updated \in WidgetConfigs, chosen_wav \in {None} \cup { Some(w) : w \in PreviewWavs },
       exists \in BOOLEAN, returns \in BOOLEAN :
       LET state  == UpdateWorking(session_state, updated)
           called == chosen_wav # None /\ exists /\ ShouldRefresh(state, chosen_wav)
       IN  /\ session_state' =
                 IF called /\ returns
                 THEN [state EXCEPT !.preview_path = Some(PngOf(chosen_wav[1])),
                                    !.last_preview_config = state.working_config,
                                    !.last_preview_wav = chosen_wav,
                                    !.force_refresh = FALSE]
                 ELSE state
           /\ rerun' = [ tick |-> 1 - rerun.tick, uploaded |-> FALSE,
                         chosen_wav |-> chosen_wav, exists |-> exists,
                         called |-> called, returned |-> called /\ returns ]
           /\ UNCHANGED panel_others

\* render with an uploaded file: lines 450-491 and 523-539
RenderUpload ==
    \E updated \in WidgetConfigs, returns \in BOOLEAN :
       LET state    == UpdateWorking(session_state, updated)
           wav_path == Some("user_c.wav")
       IN  /\ session_state' =
                 IF returns
                 THEN [state EXCEPT !.force_refresh = TRUE,
                                    !.preview_path = Some(PngOf(wav_path[1])),
                                    !.last_preview_config = updated,
                                    !.last_preview_wav = wav_path]
                 ELSE [state EXCEPT !.force_refresh = TRUE]
           /\ rerun' = [ tick |-> 1 - rerun.tick, uploaded |-> TRUE,
                         chosen_wav |-> wav_path, exists |-> TRUE,
                         called |-> TRUE, returned |-> returns ]
           /\ UNCHANGED panel_others

NextPanel == reset_defaults \/ RenderNoUpload \/ RenderUpload

SpecPanel == InitPanel /\ [][NextPanel]_vars

----------------------------------------------------------------------------
(* detect_segments: properties of the returned list.                       *)

SegDone == seg_pc = "done"

SegIndex == 1..Len(segments)

Adjacent == { j \in SegIndex : j + 1 \in SegIndex }

Ordered(a, b) == a[1] < b[1] /\ a[2] <= b[1]

\* the maximal runs of active frames <<first, last>> of the mask
IsBurst(a, b) ==
    /\ a <= b
    /\ \A j \in a..b : mask[j]
    /\ (a = 1 \/ ~mask[a - 1])
    /\ (b = Len(mask) \/ ~mask[b + 1])

Bursts == { p \in (DOMAIN mask) \X (DOMAIN mask) : IsBurst(p[1], p[2]) }

\* sample index of a burst's first active frame
BurstStart(p) == (p[1] - 1) * hop_length

\* sample index of the first silent frame after the burst, or len(y)
BurstEnd(p) == IF p[2] = Len(mask) THEN y_len ELSE p[2] * hop_length

\* C1 (as claimed): the returned list is sorted ascending, pairwise
\* non-overlapping, and adjacent segments are at least
\* min_silence_duration * sample_rate samples apart.
C1_GapAtLeastExactSilence ==
    SegDone =>
        \A j \in Adjacent :
            /\ Ordered(segments[j], segments[j + 1])
            /\ (segments[j + 1][1] - segments[j][2]) * seg_cfg.min_silence_duration[2]
                   >= seg_cfg.min_silence_duration[1] * sr

\* C1 (amended): the returned list is sorted ascending, pairwise
\* non-overlapping, and adjacent segments are at least
\* int(min_silence_duration * sample_rate) samples apart.
C1_GapAtLeastTruncatedSilence ==
    SegDone =>
        \A j \in Adjacent :
            /\ Ordered(segments[j], segments[j + 1])
            /\ segments[j + 1][1] - segments[j][2] >= min_silence

\* C1 witness: two segments were returned although a positive minimum
\* silence is configured.
C1_Witness == SegDone /\ Len(segments) >= 2 /\ min_silence >= 1

\* C2 (as claimed): every returned segment is at least
\* min_segment_duration * sample_rate samples long.
C2_LengthAtLeastExactMinimum ==
    SegDone =>
        \A j \in SegIndex :
            (segments[j][2] - segments[j][1]) * seg_cfg.min_segment_duration[2]
                >= seg_cfg.min_segment_duration[1] * sr

\* C2 (amended): every returned segment is at least
\* int(min_segment_duration * sample_rate) samples long, whether closed by
\* a silent frame, closed at the end of the buffer, or produced by a merge.
C2_LengthAtLeastTruncatedMinimum ==
    SegDone => \A j \in SegIndex : segments[j][2] - segments[j][1] >= min_samples

\* C2 witness: a segment closed at the end of the buffer was returned under
\* a positive minimum length.
C2_Witness ==
    SegDone /\ in_segment /\ segments # <<>> /\ Last(segments)[2] = y_len /\ min_samples >= 1

\* the two bursts of a mask with exactly two, in order
FirstBurst == CHOOSE p \in Bursts : \A q \in Bursts : p[1] <= q[1]

SecondBurst == CHOOSE p \in Bursts : \A q \in Bursts : q[1] <= p[1]

BurstGap == BurstStart(SecondBurst) - BurstEnd(FirstBurst)

BurstLen(p) == BurstEnd(p) - BurstStart(p)

\* C3 (as claimed): two bursts separated by a gap shorter than
\* min_silence_duration * sample_rate come out as one segment from the first
\* burst's start to the second burst's end.
C3_CloseBurstsAlwaysMerge ==
    (/\ SegDone
     /\ Cardinality(Bursts) = 2
     /\ BurstGap * seg_cfg.min_silence_duration[2] < seg_cfg.min_silence_duration[1] * sr)
    => segments = << <<BurstStart(FirstBurst), BurstEnd(SecondBurst)>> >>

\* C3 (amended): two bursts, each at least int(min_segment_duration *
\* sample_rate) samples long, separated by a gap shorter than
\* int(min_silence_duration * sample_rate), come out as one segment from the
\* first burst's start to the second burst's end.
C3_AcceptedCloseBurstsMerge ==
    (/\ SegDone
     /\ Cardinality(Bursts) = 2
     /\ BurstLen(FirstBurst) >= min_samples
     /\ BurstLen(SecondBurst) >= min_samples
     /\ BurstGap < min_silence)
    => segments = << <<BurstStart(FirstBurst), BurstEnd(SecondBurst)>> >>

\* C3 witness: two accepted bursts closer than the minimum silence were
\* returned as one segment, the second one closed by a silent frame.
C3_Witness ==
    /\ SegDone
    /\ Cardinality(Bursts) = 2
    /\ BurstLen(FirstBurst) >= min_samples
    /\ BurstLen(SecondBurst) >= min_samples
    /\ BurstGap < min_silence
    /\ ~in_segment
    /\ min_samples >= 1
    /\ segments = << <<BurstStart(FirstBurst), BurstEnd(SecondBurst)>> >>

\* every sample zero: every frame's RMS is zero
SilentBuffer == \A j \in DOMAIN rms : rms[j] = 0

\* C4 (as claimed): a purely silent buffer yields the empty list for every
\* rms_threshold in [0,1] and every sigmoid steepness.
C4_SilentBufferNoSegments ==
    (SegDone /\ SilentBuffer /\ seg_cfg.rms_threshold \in 0..10) => segments = <<>>

\* C5: when the last frame is active, the candidate closed at len(y) is
\* discarded when shorter than the minimum, merged into the last accepted
\* segment when the gap is below the minimum silence, appended otherwise:
\* the outcome of the rule applied to a candidate closed by a silent frame.
C5_TailSameRule ==
    [][(seg_pc = "tail" /\ mask[Len(mask)]) =>
          /\ in_segment
          /\ segments' = CloseInLoop(segments, seg_start, y_len, min_samples, min_silence)
          /\ (y_len - seg_start < min_samples => segments' = segments)
          /\ (y_len - seg_start >= min_samples =>
                IF segments # <<>> /\ seg_start - Last(segments)[2] < min_silence
                THEN /\ Len(segments') = Len(segments)
                     /\ Last(segments') = <<Last(segments)[1], y_len>>
                ELSE segments' = Append(segments, <<seg_start, y_len>>))
      ]_vars

\* C5 witness: the buffer ended in an active frame and the open candidate
\* was merged into the preceding accepted segment, ending at len(y).
C5_Witness ==
    /\ SegDone /\ mask[Len(mask)]
    /\ segments # <<>>
    /\ Last(segments)[2] = y_len
    /\ Last(segments)[1] < seg_start

\* C6 (as claimed): every returned segment has start_sample < end_sample
\* whenever the minimum segment duration is non-negative.
C6_SegmentsNonEmpty ==
    (SegDone /\ seg_cfg.min_segment_duration[1] >= 0)
    => \A j \in SegIndex : segments[j][1] < segments[j][2]

----------------------------------------------------------------------------
(* detect_segments: one run of active frames, short candidates, the        *)
(* buffer's ends.                                                          *)

\* the run of a mask with exactly one
OnlyBurst == CHOOSE p \in Bursts : TRUE

\* exactly one maximal run of active frames, a silent frame after it, and
\* the run at least the minimum segment length
SingleClosedRun ==
    /\ Cardinality(Bursts) = 1
    /\ OnlyBurst[2] < Len(mask)
    /\ (OnlyBurst[2] - OnlyBurst[1] + 1) * hop_length >= min_samples

\* C22: for a mask with exactly one maximal run of active frames i..j-1
\* followed by a silent frame j, and (j - i) * hop at least the minimum
\* segment length, detect_segments returns exactly one segment,
\* (i * hop, j * hop).
C22_SingleRunOneSegment ==
    (SegDone /\ SingleClosedRun)
    => segments = << <<(OnlyBurst[1] - 1) * hop_length, OnlyBurst[2] * hop_length>> >>

\* C22 witness: a single run exactly as long as a positive minimum, closed
\* by a silent frame, was returned as the one segment.
C22_Witness ==
    /\ SegDone /\ SingleClosedRun
    /\ min_samples >= 1
    /\ (OnlyBurst[2] - OnlyBurst[1] + 1) * hop_length = min_samples
    /\ segments = << <<(OnlyBurst[1] - 1) * hop_length, OnlyBurst[2] * hop_length>> >>

\* C23: a candidate shorter than the minimum segment length is discarded
\* and leaves the accepted segments unchanged, neither appended nor merged,
\* whatever its gap to the preceding segment; closed by a silent frame it
\* leaves the detector SILENT, so that the next candidate is measured
\* against the last accepted segment.
C23_ShortCandidateDiscarded ==
    [][/\ (seg_pc = "loop" /\ frame_i <= Len(mask) /\ ~mask[frame_i] /\ in_segment
              /\ sample_idx - seg_start < min_samples)
          => (segments' = segments /\ ~in_segment')
       /\ (seg_pc = "tail" /\ in_segment /\ y_len - seg_start < min_samples)
          => segments' = segments
      ]_vars

\* C23 witness: after an accepted first run, a second run shorter than the
\* minimum and closer than the minimum silence was closed by a silent frame,
\* and the list holds the first run alone.
C23_Witness ==
    /\ SegDone
    /\ Cardinality(Bursts) = 2
    /\ SecondBurst[2] < Len(mask)
    /\ BurstLen(FirstBurst) >= min_samples
    /\ BurstLen(SecondBurst) < min_samples
    /\ BurstGap < min_silence
    /\ segments = << <<BurstStart(FirstBurst), BurstEnd(FirstBurst)>> >>

\* C28: every returned segment lies inside the buffer,
\* 0 <= start_sample and end_sample <= len(y), for every buffer length and
\* hop length.
C28_SegmentsInsideBuffer ==
    SegDone => \A j \in SegIndex : 0 <= segments[j][1] /\ segments[j][2] <= y_len

\* C28 witness: a segment closed by the silent last frame, whose sample
\* index is len(y), was returned.
C28_Witness ==
    /\ SegDone /\ ~in_segment
    /\ segments # <<>>
    /\ Last(segments)[2] = y_len
    /\ ~mask[Len(mask)]
    /\ (Len(mask) - 1) * hop_length = y_len

----------------------------------------------------------------------------
(* generate_spectrogram: properties of the PNG write.                      *)

PngDone == png_pc = "done"

PngRaised == PngDone /\ png_result # "returned"

\* C7 (as claimed): at most two encodings, the first to the output path and
\* the second, only after a failed verification, to the temporary path; a
\* second file that verifies replaces the output and the call returns a
\* valid PNG; a second file that fails verification makes the call raise.
C7_RetryOnceThenReturn ==
    /\ Len(encoded) <= 2
    /\ (Len(encoded) >= 1 => encoded[1] = "output_path")
    /\ (Len(encoded) >= 2 => encoded[2] = "tmp_path" /\ exc = "bad")
    /\ (PngDone /\ retry_exc = "ok" =>
            moved = "ok" /\ png_result = "returned" /\ out_file = "valid")
    /\ (PngDone /\ retry_exc \in {"bad", "bomb"} => PngRaised)

\* C7 (amended): as claimed, except that a second file that verifies makes
\* the call return a valid PNG only when moving it onto the output path
\* succeeds; when the move fails the call raises a fatal error.
C7_RetryOnceThenReturnOrMoveFails ==
    /\ Len(encoded) <= 2
    /\ (Len(encoded) >= 1 => encoded[1] = "output_path")
    /\ (Len(encoded) >= 2 => encoded[2] = "tmp_path" /\ exc = "bad")
    /\ (PngDone /\ retry_exc = "ok" /\ moved = "ok" =>
            png_result = "returned" /\ out_file = "valid")
    /\ (PngDone /\ retry_exc = "ok" /\ moved # "ok" =>
            moved = "failed" /\ PngRaised)
    /\ (PngDone /\ retry_exc \in {"bad", "bomb"} => PngRaised)

\* C7 witness: the first file failed verification, the second verified and
\* replaced it, and the call returned.
C7_Witness ==
    /\ PngDone /\ exc = "bad" /\ retry_exc = "ok" /\ moved = "ok"
    /\ encoded = <<"output_path", "tmp_path">>
    /\ png_result = "returned" /\ out_file = "valid"

\* the failures of C8: an empty file, or verification failing twice
InvalidPngFailure ==
    \/ png_result = "RuntimeError: Empty PNG written"
    \/ (png_result = "RuntimeError: Failed to create valid PNG" /\ exc = "bad")

\* C8 (as claimed): when the call fails because the encoded PNG is invalid,
\* no broken or partially written file is left at the output path.
C8_NoBrokenOutputLeft ==
    (PngDone /\ InvalidPngFailure) => out_file \in {"absent", "valid"}

\* C27 (as claimed): on every exit path of generate_spectrogram after the
\* figure has been created, the figure is closed and the temporary file
\* <stem>_spectrogram.tmp.png does not exist.
C27_FigureClosedTmpGone ==
    PngDone => (~fig_open /\ tmp_file = "absent")

----------------------------------------------------------------------------
(* Properties of the frequency window.                                     *)

\* C9 (as claimed): whatever fmin, fmax and sample rate are configured, the
\* bounds generate_spectrogram uses satisfy
\* 0 <= effective_fmin < effective_fmax <= sample_rate / 2.
C9_EffectiveBoundsInvariant ==
    gen_bounds # None =>
        /\ 0 <= gen_bounds[1]
        /\ gen_bounds[1] < gen_bounds[2]
        /\ gen_bounds[2] <= Nyquist(fq_in.sample_rate)

\* the request is degenerate for generate_spectrogram: fmin >= fmax once fmax
\* is capped
GenDegenerate == RequestedFmin(fq_in) >= CappedFmax(fq_in)

\* the request is degenerate for compute_spectrogram: fmin >= fmax once fmax
\* is clamped to Nyquist
EngineDegenerate ==
    Max(0, OrElse(fq_in.fmin, 0))
        >= Min(OrElse(fq_in.fmax, Nyquist(fq_in.sample_rate)), Nyquist(fq_in.sample_rate))

\* C10 (as claimed): a request with fmin >= fmax after the clamp to Nyquist is
\* never rejected; generate_spectrogram and compute_spectrogram both lower
\* fmin, leave fmax unchanged and go on with a non-empty window.
C10_DegenerateWindowRecovered ==
    /\ (gen_bounds # None /\ GenDegenerate) =>
            /\ gen_bounds[2] = CappedFmax(fq_in)
            /\ gen_bounds[1] < gen_bounds[2]
            /\ gen_bounds[1] <= RequestedFmin(fq_in)
    /\ (clamp_out # None /\ EngineDegenerate) =>
            /\ clamp_out[1] = "ok"
            /\ clamp_out[2] < clamp_out[3]

----------------------------------------------------------------------------
(* compute_spectrogram: the returned frequency axis.                       *)

EngDone == eng_pc = "done"

EngReturned == EngDone /\ eng_out # None /\ eng_out[1] = "ok"

EngRaised == EngDone /\ eng_out # None /\ eng_out[1] = "ValueError"

StrictlyAscending(s) == \A i \in 1..(Len(s) - 1) : s[i] < s[i + 1]

\* max(0, fmin), an absent fmin read as no lower bound
LowerBoundOf(req) == IF req.fmin = None THEN 0 ELSE Max(0, Hz(req.fmin[1]))

\* min(fmax, sample_rate / 2), an absent fmax read as no upper bound
UpperBoundOf(req) ==
    IF req.fmax = None THEN Nyquist(req.sample_rate)
    ELSE Min(Hz(req.fmax[1]), Nyquist(req.sample_rate))

\* C11 as stated: whenever compute_spectrogram returns, the returned
\* frequencies are strictly ascending, every one lies between max(0, fmin)
\* and min(fmax, sample_rate / 2), and the matrix has one row per frequency.
C11_AxisWithinRequestedWindow ==
    EngReturned =>
        /\ StrictlyAscending(eng_out[2])
        /\ \A i \in DOMAIN eng_out[2] :
               /\ LowerBoundOf(eng_in) <= eng_out[2][i]
               /\ eng_out[2][i] <= UpperBoundOf(eng_in)
        /\ Len(eng_out[3]) = Len(eng_out[2])

----------------------------------------------------------------------------
(* compute_spectrogram: a frequency window between two bins.               *)

\* C29 (as claimed): whenever compute_spectrogram returns, the returned
\* frequency axis contains at least one bin, including for a frequency
\* window narrower than the bin spacing sample_rate / n_fft.
C29_ReturnedAxisNonEmpty == EngReturned => Len(eng_out[2]) >= 1

----------------------------------------------------------------------------
(* generate_spectrogram: the limits of the frequency axis.                 *)

BothBoundsSet == fq_in.fmin # None /\ fq_in.fmax # None

\* the displayed limits lie inside the configured window; a bottom of None
\* sets no lower limit
YlimInsideConfigured ==
    /\ ylim[1] # None => ylim[1][1] >= Hz(fq_in.fmin[1])
    /\ ylim[2] <= Hz(fq_in.fmax[1])

\* C12 as stated: for every configuration with fmin and fmax set, the lower
\* limit set_ylim receives is at least cfg.fmin and the upper limit at most
\* cfg.fmax.
C12_YlimInsideConfiguredWindow ==
    (ylim # None /\ BothBoundsSet) => YlimInsideConfigured

\* C12, amended: the same for the configurations whose window is not
\* degenerate, 0 <= cfg.fmin < min(cfg.fmax, freq_cap).
C12_YlimInsideNonDegenerateWindow ==
    (/\ ylim # None /\ BothBoundsSet
     /\ 0 <= Hz(fq_in.fmin[1])
     /\ Hz(fq_in.fmin[1]) < Min(Hz(fq_in.fmax[1]), FreqCap(fq_in.sample_rate)))
        => YlimInsideConfigured

\* a positive fmin below a capped fmax: both limits are set, the upper one
\* below cfg.fmax
C12_Witness ==
    /\ ylim # None /\ BothBoundsSet
    /\ 0 < fq_in.fmin[1]
    /\ Hz(fq_in.fmin[1]) < FreqCap(fq_in.sample_rate)
    /\ FreqCap(fq_in.sample_rate) < Hz(fq_in.fmax[1])
    /\ ylim[1] # None
    /\ ylim[2] < Hz(fq_in.fmax[1])

----------------------------------------------------------------------------
(* compute_spectrogram: the window name.                                   *)

\* the recognised window a spelling stands for, letter case disregarded
CanonicalWindow(name) ==
    CASE name \in {"hann", "Hann"}       -> Some("hann")
      [] name \in {"hamming", "HAMMING"} -> Some("hamming")
      [] name = "blackman"               -> Some("blackman")
      [] OTHER                           -> None

UnsupportedWindowError == << "ValueError", "unsupported window" >>

\* C13: a window name other than hann, blackman, hamming (letter case
\* disregarded) makes compute_spectrogram raise before signal.stft is called
\* and return nothing; a recognised name in any letter case is accepted and
\* handed to signal.stft in its lower-case spelling.
C13_WindowValidatedBeforeTransform ==
    LET canonical == CanonicalWindow(eng_in.window)
    IN  /\ canonical = None =>
              /\ eng_stft = None
              /\ EngDone => EngRaised
        /\ canonical # None =>
              /\ eng_out # UnsupportedWindowError
              /\ eng_window # None => eng_window = canonical
              /\ eng_stft # None => eng_stft[1].window = canonical[1]

\* mono audio with an unknown window: the call has ended with the window
\* error and no transform
C13_Witness ==
    /\ eng_in.ndim = 1 /\ eng_in.window = "boxcar"
    /\ EngDone /\ eng_out = UnsupportedWindowError
    /\ eng_stft = None

----------------------------------------------------------------------------
(* compute_spectrogram: a hop longer than the FFT size.                    *)

\* C14 as stated: a request whose hop_length is greater than its FFT size
\* fails with a configuration error; the transform is never computed for it
\* and nothing is returned.
C14_LongHopRejected ==
    eng_in.hop_length > eng_in.n_fft =>
        /\ eng_pc # "clamp"
        /\ ~EngReturned

----------------------------------------------------------------------------
(* SpectrogramConfig: hop_length against hop_ratio.                        *)

\* the configuration was produced by from_dict
FromDictDone == cfg_raw # None /\ cfg_obj # None

\* int(n_fft * hop_ratio) of the configuration
RatioHop(cfg) == PyInt(cfg.n_fft * cfg.hop_ratio[1], cfg.hop_ratio[2])

----------------------------------------------------------------------------
(* SpectrogramConfig: the round trip through to_dict and the JSON file.    *)

AbsoluteDirs(cfg) == cfg.input_directory.abs /\ cfg.output_directory.abs

\* what was read back equals the configuration, field for field
ReadBackEqual ==
    /\ cfg_back # None => cfg_back = cfg_obj
    /\ cfg_loaded # None => cfg_loaded = cfg_obj

\* C19 as stated: for every SpectrogramConfig c, from_dict(c.to_dict()) equals
\* c field for field, and save_config followed by load_config returns an
\* equal configuration.
C19_RoundTripLossless == cfg_obj # None => ReadBackEqual

\* C19, amended: the same for every configuration whose input_directory and
\* output_directory are absolute paths.
C19_RoundTripLosslessAbsoluteDirs ==
    (cfg_obj # None /\ AbsoluteDirs(cfg_obj)) => ReadBackEqual

\* a directly built configuration with a directory below the project root, a
\* zero fmin and a None top_db, read back both ways
C19_Witness ==
    /\ cfg_raw = None /\ cfg_obj # None /\ cfg_back # None /\ cfg_loaded # None
    /\ AbsoluteDirs(cfg_obj)
    /\ IsRelativeTo(cfg_obj.input_directory, PROJECT_ROOT)
    /\ cfg_obj.input_directory # PROJECT_ROOT
    /\ cfg_obj.fmin = Some(<< 0, 1 >>) /\ cfg_obj.top_db = None
    /\ cfg_obj.hop_length = 0

----------------------------------------------------------------------------
(* generate_spectrogram: one hop for the detector and the transform.       *)

\* C16: within one generate_spectrogram call the hop detect_segments frames
\* the RMS envelope with equals the hop handed to the spectral transform, for
\* every configuration.
C16_DetectorHopIsTransformHop ==
    (branch # None /\ det_hop # None) => det_hop[1] = branch[2]

\* a configuration whose explicit hop_length differs from int(n_fft * hop_ratio)
\* went through the transform and the detector
C16_Witness ==
    /\ branch # None /\ det_hop # None
    /\ gen_cfg.hop_length # None /\ gen_cfg.hop_length[1] > 0
    /\ gen_cfg.hop_length[1] # RatioHop(gen_cfg)
    /\ det_hop[1] = gen_cfg.hop_length[1]

----------------------------------------------------------------------------
(* generate_spectrogram: the level pipeline.                               *)

\* the contrast step has run
Compressed == S_db # None /\ vmin # None /\ vmax # None

\* the matrix that enters the contrast step: lines 384-423
LevelsBeforeContrast ==
    LET converted == IF gen_cfg.pcen_enabled THEN pcen_ret
                     ELSE ToDb(S_base, gen_cfg.ref_power, gen_cfg.top_db)
    IN  IF gen_cfg.per_frequency_normalization THEN NormalizeRows(converted)
        ELSE converted

\* C17 as stated: with pcen_enabled, the matrix handed to the renderer and its
\* vmin / vmax are the PCEN values themselves, whatever
\* per_frequency_normalization, ref_power, top_db and dynamic_range are.
C17_PcenLevelsUntouched ==
    (Compressed /\ gen_cfg.pcen_enabled) =>
        /\ S_db = pcen_ret
        /\ vmin[1] = LevelMin(Flatten(pcen_ret))
        /\ vmax[1] = IF gen_cfg.contrast_percentile # None
                     THEN Percentile(pcen_ret, gen_cfg.contrast_percentile[1])
                     ELSE LevelMax(Flatten(pcen_ret))

\* vmin <= vmax, every element >= vmin, and no element lowered by the clip
CompressionSound ==
    /\ RLe(vmin[1], vmax[1])
    /\ \A r \in DOMAIN S_db : \A c \in DOMAIN S_db[r] :
           /\ RLe(vmin[1], S_db[r][c])
           /\ RLe(LevelsBeforeContrast[r][c], S_db[r][c])

\* C18 as stated: after the compression stage vmin <= vmax, every element of
\* the matrix is >= vmin and none was clipped from above, with PCEN on or off
\* and with or without a contrast percentile.
C18_CompressionSound == Compressed => CompressionSound

----------------------------------------------------------------------------
(* generate_spectrogram: unknown transform and colormap names.             *)

RecognisedTransform(name) == Lower(name) \in { "mel", "stft", "cqt" }

\* a ramp matplotlib holds, or one of the lightened ramps built from one
KnownRamp(name) ==
    \/ name \in KnownColormaps
    \/ name = "soft_gray"
    \/ StripLight(name) # None /\ StripLight(name)[1] \in KnownColormaps

\* C20 as stated: a configuration whose transform is not one of mel, stft, cqt
\* or whose colormap is not a known ramp makes generate_spectrogram fail; no
\* transform is computed for the one and no colormap substituted for the other.
C20_ShapeErrorsFail ==
    /\ ~RecognisedTransform(gen_cfg.transform) => branch = None
    /\ ~KnownRamp(gen_cfg.colormap) => cmap_obj = None

----------------------------------------------------------------------------
(* generate_spectrogram: what a call leaves behind for the next one.       *)

\* C21 (as claimed): a generate_spectrogram call does not modify its
\* configuration argument and leaves the global colormap registry equal to
\* what it was before the call, so that the colormap a call draws with is
\* the one a first call in a fresh process resolves for the same name.
C21_NoStateAcrossCalls ==
    /\ colormaps = KnownColormaps
    /\ gen_pc = "rendered" => cmap_obj = ResolveAmong(KnownColormaps, gen_cfg.colormap)

----------------------------------------------------------------------------
(* audio_loader: the temporary files left when the cleanup has run.        *)

\* C26 (as claimed): every temporary file created by persist_uploaded_file
\* is removed by the exit-time cleanup under every interleaving: no file
\* that was on disk when the cleanup took its snapshot is still on disk
\* when the cleanup has returned.
C26_TempFilesRemoved == clean_pc = "done" => clean_disk \cap tmp_disk = {}

----------------------------------------------------------------------------
(* The batch entry points: files one by one, and one entry point against   *)
(* the other.                                                              *)

\* the files whose PNG entry point e has produced
Produced(e) ==
    { dir_calls[e][i][1] : i \in { k \in DOMAIN dir_calls[e] : dir_files[dir_calls[e][k][1]] = "ok" } }

\* the files entry point e reports to its caller
Reported(e) ==
    IF dir_result[e] # None /\ dir_result[e][1] = "returned"
    THEN { dir_result[e][2][i] : i \in DOMAIN dir_result[e][2] }
    ELSE {}

\* C25 (as claimed): directory processing is independent per file: whether
\* the PNG of a WAV file is produced does not depend on the other files or
\* on their order; a file whose rendering fails does not prevent the outputs
\* of the other files from being produced and, by generate_for_directory,
\* reported.
C25_FilesIndependent ==
    \A e \in Entries :
        dir_pc[e] = "done" =>
            \A f \in DOMAIN dir_files :
                dir_files[f] = "ok" =>
                    /\ f \in Produced(e)
                    /\ (e = "run_harness" => f \in Reported(e))

\* C30 (as claimed): for the same configuration and input directory,
\* generate_spectrograms.main and run_harness render the same set of WAV
\* files with the same settings, and both draw the segment overlay exactly
\* when cfg.overlay_segments is true.
C30_EntryPointsEquivalent ==
    (\A e \in Entries : dir_pc[e] = "done") =>
        /\ Produced("main") = Produced("run_harness")
        /\ \A e \in Entries : \A i \in DOMAIN dir_calls[e] :
               dir_calls[e][i][2] = dir_cfg.overlay_segments

----------------------------------------------------------------------------
(* controls_panel.render: when the preview is regenerated.                 *)

\* a rerun of render with no file in the uploader
RerunNoUpload == rerun'.tick # rerun.tick /\ ~rerun'.uploaded

\* a refresh is forced, the working configuration differs from the last
\* previewed one, or the chosen WAV differs from the last previewed WAV
RefreshDue ==
    \/ session_state.force_refresh
    \/ session_state'.working_config # session_state.last_preview_config
    \/ rerun'.chosen_wav # session_state.last_preview_wav

\* after a regeneration force_refresh is false and last_preview_config is
\* the working configuration
Settled(state) ==
    ~state.force_refresh /\ state.last_preview_config = state.working_config

\* the rerun follows a rerun that regenerated, with the same widgets and WAV
SameAgain ==
    /\ rerun.called /\ rerun.returned /\ ~rerun.uploaded
    /\ session_state'.working_config = session_state.working_config
    /\ rerun'.chosen_wav = rerun.chosen_wav

\* C24 (as claimed): with no file uploaded, a rerun regenerates the preview
\* exactly when a refresh is forced, the working configuration differs from
\* the last previewed one, or the chosen WAV differs from the last previewed
\* WAV; after a regeneration force_refresh is false and last_preview_config
\* equals the working configuration; an immediately following rerun with
\* unchanged widgets and the same WAV does not regenerate.
C24_RegeneratesExactlyWhenDue ==
    [][RerunNoUpload =>
          /\ rerun'.called <=> RefreshDue
          /\ rerun'.called => Settled(session_state')
          /\ SameAgain => ~rerun'.called
      ]_vars

\* C24 (amended): with no file uploaded, a rerun calls generate_spectrogram
\* exactly when a WAV is chosen, exists on disk, and a refresh is due; after
\* a call that returns, force_refresh is false and last_preview_config
\* equals the working configuration; an immediately following rerun with
\* unchanged widgets and the same WAV does not call it again.
C24_RegeneratesWhenDueAndWavExists ==
    [][RerunNoUpload =>
          /\ rerun'.called <=>
                (rerun'.chosen_wav # None /\ rerun'.exists /\ RefreshDue)
          /\ rerun'.returned => Settled(session_state')
          /\ SameAgain => ~rerun'.called
      ]_vars

\* C24 witness: a rerun with the widgets and the existing WAV of the last
\* preview made no call and kept the cached preview.
C24_Witness ==
    /\ ~rerun.uploaded /\ ~rerun.called
    /\ rerun.chosen_wav # None /\ rerun.exists
    /\ rerun.chosen_wav = session_state.last_preview_wav
    /\ session_state.preview_path = Some(PngOf(rerun.chosen_wav[1]))
    /\ Settled(session_state)

====
